---- MODULE Spec2Model ----
(***************************************************************************)
(* PyazDB: a key-value store replicated with hashicorp/raft, a request     *)
(* router with an HTTP and a gRPC surface, and the "mandi" discovery       *)
(* registry.                                                               *)
(*                                                                         *)
(* Spec          the replicated store under a stable leader: proposals,    *)
(*               replication, commit, the FSM (RaftStore.Apply on          *)
(*               MemStore), and clients that talk to the leader.           *)
(* SpecRestart   the same store with snapshots and follower restarts.      *)
(* SpecFailover  the same store with elections: leaders are deposed and    *)
(*               elected while clients talk to any node that reports       *)
(*               Leader.                                                   *)
(* SpecRouter    the handlers that forward (HTTP and gRPC): a request      *)
(*               travels from node to node through the registry's leader   *)
(*               record while leadership and the record change.            *)
(* SpecRedirect  the handlers of internal/api, which answer a redirect.    *)
(* SpecJoin      cluster formation from empty disks: setupRaft, the join   *)
(*               loop, the leader's duties loop, elections.                *)
(***************************************************************************)
EXTENDS Integers, Sequences, FiniteSets, TLC

Nodes == {"n1", "n2", "n3"}
Keys == {"a", "b"}
\* Values may be empty: "" is a value like any other.
Values == {"", "x"}
\* One client issues the writes and one the reads, so that a get overlaps
\* a write in flight.
Writers == {"c1"}
Readers == {"c2"}
Clients == Writers \cup Readers
\* SpecFailover drives a single key.
FailoverKeys == {"a"}
FailoverValues == {"x"}

\* Bounds of the model.
MaxTerm == 2
MaxLog == 2
\* raft.Config.SnapshotThreshold, scaled to the model's log length.
SnapshotThreshold == 1

VARIABLES
    role,         \* r.State() of each node
    currentTerm,  \* r.CurrentTerm()
    log,          \* the raft log of each node: entries [term, data]
    commitIndex,  \* the engine's commit index
    lastApplied,  \* index of the last entry handed to the FSM
    snapIndex,    \* index of the last snapshot in the node's snapshot store
    data,         \* MemStore.data of each node
    creq,         \* the request each client has in flight at a node
    ackedMax,     \* history: highest log index acknowledged to a client
    elections,    \* history: number of elections won so far
    stack,        \* the handler calls of the request in flight, outermost first
    reply,        \* the reply the client received to its last request
    regLeader,    \* the registry's leader slot
    atStart,      \* history: the logs and maps when the request arrived
    up,           \* each node's process: "down", "joining" or "running"
    conf,         \* the latest cluster configuration each node stores
    joins,        \* the registry's join requests
    duty,         \* the join request each leader's duties loop is working on
    now,          \* the registry's clock, in seconds
    lastSweep,    \* when cleanupLoop's ticker last fired
    regStore,     \* the registry's Store: leader and joinRequests
    regOut,       \* the registry's response to the last request
    firstPosted,  \* history: when each stored join request was first inserted
    istore,       \* the InstrumentedStore: the wrapped store and its Metrics
    mcalls,       \* the wrapper call each goroutine has in flight
    direct,       \* history: a bare store that received the same calls
    completed,    \* history: wrapper calls returned since the last reset
    monitor,      \* where each node's monitorLeadership goroutine stands
    duties,       \* runLeaderDuties of the leader, timed: tickers, join list, sleep
    mstore,       \* a MemStore shared by several goroutines: mu and data
    mem           \* the MemStore call each caller has in flight

storeVars == <<role, currentTerm, log, commitIndex, lastApplied, snapIndex, data, creq, ackedMax, elections>>
routerVars == <<stack, reply, regLeader, atStart>>
clusterVars == <<up, conf, joins, duty>>
registryVars == <<now, lastSweep, regStore, regOut, firstPosted>>
metricsVars == <<istore, mcalls, direct, completed>>
monitorVars == <<monitor, duties>>
lockVars == <<mstore, mem>>
serviceVars == <<registryVars, metricsVars, monitorVars, lockVars>>
vars == <<role, currentTerm, log, commitIndex, lastApplied, snapIndex, data, creq, ackedMax, elections,
          stack, reply, regLeader, atStart, up, conf, joins, duty,
          now, lastSweep, regStore, regOut, firstPosted, istore, mcalls, direct, completed,
          monitor, duties, mstore, mem>>

Max(a, b) == IF a >= b THEN a ELSE b
Min(a, b) == IF a <= b THEN a ELSE b

(***************************************************************************)
(* MemStore: a map guarded by a RWMutex.                                   *)
(***************************************************************************)
NewMemStore == <<>>

MemGet(d, k) == IF k \in DOMAIN d THEN <<d[k], TRUE>> ELSE <<"", FALSE>>

MemSet(d, k, v) == [x \in (DOMAIN d) \cup {k} |-> IF x = k THEN v ELSE d[x]]

MemDeleteNothing(d, k) == d

MemDeleteTombstone(d, k) ==
    IF k \in DOMAIN d THEN [x \in (DOMAIN d) \ {k} |-> d[x]] ELSE MemSet(d, k, "")

MemDelete(d, k) == [x \in (DOMAIN d) \ {k} |-> d[x]]

(***************************************************************************)
(* RaftCommand and its JSON encoding: json.Marshal writes the three fields *)
(* Op, Key, Value in order; json.Unmarshal reads them back by name.        *)
(***************************************************************************)
RaftCommand(op, k, v) == [Op |-> op, Key |-> k, Value |-> v]

Marshal(cmd) == <<<<"Op", cmd.Op>>, <<"Key", cmd.Key>>, <<"Value", cmd.Value>>>>

Field(bytes, name) == LET i == CHOOSE i \in 1..Len(bytes) : bytes[i][1] = name IN bytes[i][2]

Unmarshal(bytes) == [Op |-> Field(bytes, "Op"), Key |-> Field(bytes, "Key"), Value |-> Field(bytes, "Value")]

ApplyWithoutDelete(d, bytes) ==
    LET cmd == Unmarshal(bytes) IN
    CASE cmd.Op = "set" -> MemSet(d, cmd.Key, cmd.Value)
      [] OTHER -> d

ApplyUnknownAsSet(d, bytes) ==
    LET cmd == Unmarshal(bytes) IN
    CASE cmd.Op = "delete" -> MemDelete(d, cmd.Key)
      [] OTHER -> MemSet(d, cmd.Key, cmd.Value)

\* RaftStore.Apply: decode the entry and mutate the MemStore; an op that is
\* neither "set" nor "delete" falls through the switch.
Apply(d, bytes) ==
    LET cmd == Unmarshal(bytes) IN
    CASE cmd.Op = "set" -> MemSet(d, cmd.Key, cmd.Value)
      [] cmd.Op = "delete" -> MemDelete(d, cmd.Key)
      [] OTHER -> d

\* The commands RaftStore.Set and RaftStore.Delete hand to raft.Apply.
SetCommand(k, v) == Marshal(RaftCommand("set", k, v))

DeleteCommand(k) == Marshal(RaftCommand("delete", k, ""))

Commands == {SetCommand(k, v) : k \in Keys, v \in Values} \cup {DeleteCommand(k) : k \in Keys}

(***************************************************************************)
(* The consensus engine (hashicorp/raft), by its contract.                 *)
(***************************************************************************)
Quorums == {Q \in SUBSET Nodes : 2 * Cardinality(Q) > Cardinality(Nodes)}

LastTerm(l) == IF Len(l) = 0 THEN 0 ELSE l[Len(l)].term

\* a cluster configuration: ver counts the configuration entries of the log
Configuration(ver, voters, nonvoters) == [ver |-> ver, voters |-> voters, nonvoters |-> nonvoters]

NoConfiguration == Configuration(0, {}, {})

Servers(c) == c.voters \cup c.nonvoters

IsQuorum(Q, voters) == Q \subseteq voters /\ 2 * Cardinality(Q) > Cardinality(voters)

\* m grants n its vote only if n's log, configuration entries included, is
\* at least as up to date as its own
UpToDate(n, m) ==
    /\ conf[n].ver >= conf[m].ver
    /\ \/ LastTerm(log[n]) > LastTerm(log[m])
       \/ LastTerm(log[n]) = LastTerm(log[m]) /\ Len(log[n]) >= Len(log[m])

Idle == [pc |-> "idle"]

None == [none |-> TRUE]

\* The first leader: the node that bootstrapped the cluster.
Bootstrap == "n1"

\* The registry's Store after NewStore: no leader, no join request.
NewStore == [leader |-> None, joinRequests |-> <<>>]

\* Metrics after NewInstrumentedStore: every counter is zero.
NewMetrics ==
    [GetCount |-> 0, SetCount |-> 0, DeleteCount |-> 0,
     GetLatencyNs |-> 0, SetLatencyNs |-> 0, DeleteLatencyNs |-> 0]

NewInstrumentedStore(store) == [store |-> store, metrics |-> NewMetrics]

\* The goroutines that call the InstrumentedStore concurrently.
Goroutines == {"g1", "g2"}

NoCalls == [get |-> 0, set |-> 0, delete |-> 0]

\* The registry and the metrics wrapper right after they are constructed.
InitServices ==
    /\ now = 0
    /\ lastSweep = 0
    /\ regStore = NewStore
    /\ regOut = None
    /\ firstPosted = <<>>
    /\ istore = NewInstrumentedStore(NewMemStore)
    /\ mcalls = [g \in Goroutines |-> Idle]
    /\ direct = NewMemStore
    /\ completed = NoCalls

\* monitorLeadership of a node whose engine reports Leader is inside
\* runLeaderDuties, waiting on its tickers; on any other node it polls State
InitMonitor == monitor = [n \in Nodes |-> IF role[n] = "Leader" THEN "select" ELSE "idle"]

\* The callers of one MemStore: HTTP / gRPC handler goroutines and the FSM.
Callers == {"c1", "c2", "c3"}

\* A zero sync.RWMutex: no writer has announced itself, nobody reads,
\* nobody waits.
NewRWMutex == [w |-> {}, readers |-> {}, readerWait |-> {}, blocked |-> {}]

InitLock ==
    /\ mstore = [mu |-> NewRWMutex, data |-> NewMemStore]
    /\ mem = [g \in Callers |-> Idle]

\* runLeaderDuties has just made its tickers: no tick is waiting in either
\* channel, no join list has been fetched.
InitDuties == duties = [leaderC |-> FALSE, joinC |-> FALSE, list |-> {}, cur |-> "", wake |-> 0]

\* The cluster once the join protocol has admitted every node: the
\* bootstrap node leads term 1 and no write has been proposed yet.
Init ==
    /\ role = [n \in Nodes |-> IF n = Bootstrap THEN "Leader" ELSE "Follower"]
    /\ currentTerm = [n \in Nodes |-> 1]
    /\ log = [n \in Nodes |-> <<>>]
    /\ commitIndex = [n \in Nodes |-> 0]
    /\ lastApplied = [n \in Nodes |-> 0]
    /\ snapIndex = [n \in Nodes |-> 0]
    /\ data = [n \in Nodes |-> NewMemStore]
    /\ creq = [c \in Clients |-> Idle]
    /\ ackedMax = 0
    /\ elections = 1
    /\ stack = <<>>
    /\ reply = None
    /\ regLeader = None
    /\ atStart = None
    /\ up = [n \in Nodes |-> "running"]
    /\ conf = [n \in Nodes |-> Configuration(1, Nodes, {})]
    /\ joins = {}
    /\ duty = [n \in Nodes |-> None]
    /\ InitServices
    /\ InitMonitor
    /\ InitLock
    /\ InitDuties

\* n wins the election of term t with the votes of the quorum Q. A voter
\* that was leader of an older term steps down; a node outside Q hears
\* nothing and keeps its role.
Elect(n, Q, t) ==
    /\ role[n] # "Leader"
    /\ n \in Q
    /\ IsQuorum(Q, conf[n].voters)
    /\ t <= MaxTerm
    /\ \A m \in Q : up[m] # "down" /\ currentTerm[m] < t /\ UpToDate(n, m)
    /\ currentTerm' = [m \in Nodes |-> IF m \in Q THEN t ELSE currentTerm[m]]
    /\ role' = [m \in Nodes |-> IF m = n THEN "Leader" ELSE IF m \in Q THEN "Follower" ELSE role[m]]
    /\ elections' = elections + 1
    /\ UNCHANGED <<log, commitIndex, lastApplied, snapIndex, data, creq, ackedMax>>
    /\ UNCHANGED <<routerVars, serviceVars, clusterVars>>

\* AppendEntries from n, accepted by m: m adopts n's term, log and
\* configuration.
Replicate(n, m) ==
    /\ role[n] = "Leader"
    /\ m # n
    /\ m \in Servers(conf[n])
    /\ up[m] # "down"
    /\ currentTerm[m] <= currentTerm[n]
    /\ \/ log[m] # log[n]
       \/ conf[m] # conf[n]
       \/ commitIndex[m] < commitIndex[n]
       \/ currentTerm[m] < currentTerm[n]
    /\ conf' = [conf EXCEPT ![m] = conf[n]]
    /\ currentTerm' = [currentTerm EXCEPT ![m] = currentTerm[n]]
    /\ role' = [role EXCEPT ![m] = "Follower"]
    /\ log' = [log EXCEPT ![m] = log[n]]
    /\ commitIndex' = [commitIndex EXCEPT ![m] = Max(@, commitIndex[n])]
    /\ UNCHANGED <<lastApplied, snapIndex, data, creq, ackedMax, elections>>
    /\ UNCHANGED <<routerVars, serviceVars, up, joins, duty>>

\* A leader that lost contact with a quorum (leader lease) or heard of a
\* newer term steps down.
StepDown(n) ==
    /\ role[n] = "Leader"
    /\ role' = [role EXCEPT ![n] = "Follower"]
    /\ UNCHANGED <<currentTerm, log, commitIndex, lastApplied, snapIndex, data, creq, ackedMax, elections>>
    /\ UNCHANGED <<routerVars, serviceVars, clusterVars>>

Stored(m, n, i) == Len(log[m]) >= i /\ SubSeq(log[m], 1, i) = SubSeq(log[n], 1, i)

\* The leader commits an entry of its own term that a quorum stores.
AdvanceCommit(n, i) ==
    /\ role[n] = "Leader"
    /\ i > commitIndex[n]
    /\ i <= Len(log[n])
    /\ log[n][i].term = currentTerm[n]
    /\ {m \in Nodes : Stored(m, n, i)} \in Quorums
    /\ commitIndex' = [commitIndex EXCEPT ![n] = i]
    /\ UNCHANGED <<role, currentTerm, log, lastApplied, snapIndex, data, creq, ackedMax, elections>>
    /\ UNCHANGED <<routerVars, serviceVars, clusterVars>>

\* The FSM goroutine hands the next committed entry to RaftStore.Apply.
ApplyFSM(n) ==
    /\ lastApplied[n] < commitIndex[n]
    /\ data' = [data EXCEPT ![n] = Apply(@, log[n][lastApplied[n] + 1].data)]
    /\ lastApplied' = [lastApplied EXCEPT ![n] = @ + 1]
    /\ UNCHANGED <<role, currentTerm, log, commitIndex, snapIndex, creq, ackedMax, elections>>
    /\ UNCHANGED <<routerVars, serviceVars, clusterVars>>

(***************************************************************************)
(* Requests served by a node that reports Leader (the leader path of the   *)
(* HTTP and gRPC handlers): the role check, then the store call.           *)
(***************************************************************************)
\* The committed log: the longest prefix some node knows to be committed.
CommittedLog ==
    LET n == CHOOSE n \in Nodes : \A m \in Nodes : commitIndex[n] >= commitIndex[m]
    IN SubSeq(log[n], 1, commitIndex[n])

CanStart(c) == creq[c].pc \in {"idle", "getDone", "acked", "failed"}

\* handleGet / GRPCServer.Get: s.Raft.State() == raft.Leader, so the get is
\* served locally.
GetCheck(c, n, k) ==
    /\ CanStart(c)
    /\ role[n] = "Leader"
    /\ creq' = [creq EXCEPT ![c] = [pc |-> "getServe", node |-> n, key |-> k,
                                    term |-> currentTerm[n], startAck |-> ackedMax]]
    /\ UNCHANGED <<role, currentTerm, log, commitIndex, lastApplied, snapIndex, data, ackedMax, elections>>
    /\ UNCHANGED <<routerVars, serviceVars, clusterVars>>

\* RaftStore.Get: read the local MemStore.
RaftStoreGet(n, k) == MemGet(data[n], k)

Quiescent == \A c \in Clients : creq[c].pc # "wait"

GetRead(c) ==
    /\ creq[c].pc = "getServe"
    /\ LET r == creq[c]
           got == RaftStoreGet(r.node, r.key)
       IN creq' = [creq EXCEPT ![c] = [pc |-> "getDone", key |-> r.key,
                                       value |-> got[1], found |-> got[2]]]
    /\ UNCHANGED <<role, currentTerm, log, commitIndex, lastApplied, snapIndex, data, ackedMax, elections>>
    /\ UNCHANGED <<routerVars, serviceVars, clusterVars>>

\* handleSet / handleDelete / GRPCServer.Set / Delete: the role check passed.
WriteCheck(c, n, cmd) ==
    /\ CanStart(c)
    /\ role[n] = "Leader"
    /\ creq' = [creq EXCEPT ![c] = [pc |-> "propose", node |-> n, cmd |-> cmd]]
    /\ UNCHANGED <<role, currentTerm, log, commitIndex, lastApplied, snapIndex, data, ackedMax, elections>>
    /\ UNCHANGED <<routerVars, serviceVars, clusterVars>>

RaftApplyAwaitingNext(c) ==
    /\ creq[c].pc = "propose"
    /\ LET r == creq[c] n == r.node IN
       IF role[n] # "Leader"
       THEN /\ creq' = [creq EXCEPT ![c] = [pc |-> "failed", err |-> "ErrNotLeader"]]
            /\ UNCHANGED log
       ELSE /\ Len(log[n]) < MaxLog
            /\ log' = [log EXCEPT ![n] = Append(@, [term |-> currentTerm[n], data |-> r.cmd])]
            /\ creq' = [creq EXCEPT ![c] = [pc |-> "wait", node |-> n,
                                            idx |-> Len(log[n]) + 2, term |-> currentTerm[n]]]
    /\ UNCHANGED <<role, currentTerm, commitIndex, lastApplied, snapIndex, data, ackedMax, elections>>
    /\ UNCHANGED <<routerVars, serviceVars, clusterVars>>

\* RaftStore.Set / Delete: rs.raft.Apply(data, 0). On a node that is no
\* longer leader the future fails at once with ErrNotLeader; on the leader
\* the entry is appended to its log.
RaftApply(c) ==
    /\ creq[c].pc = "propose"
    /\ LET r == creq[c] n == r.node IN
       IF role[n] # "Leader"
       THEN /\ creq' = [creq EXCEPT ![c] = [pc |-> "failed", err |-> "ErrNotLeader"]]
            /\ UNCHANGED log
       ELSE /\ Len(log[n]) < MaxLog
            /\ log' = [log EXCEPT ![n] = Append(@, [term |-> currentTerm[n], data |-> r.cmd])]
            /\ creq' = [creq EXCEPT ![c] = [pc |-> "wait", node |-> n,
                                            idx |-> Len(log[n]) + 1, term |-> currentTerm[n]]]
    /\ UNCHANGED <<role, currentTerm, commitIndex, lastApplied, snapIndex, data, ackedMax, elections>>
    /\ UNCHANGED <<routerVars, serviceVars, clusterVars>>

\* f.Error() returns nil: the entry is committed and the leader's FSM has
\* applied it.
FutureOk(c) ==
    /\ creq[c].pc = "wait"
    /\ LET r == creq[c] n == r.node IN
       /\ lastApplied[n] >= r.idx
       /\ log[n][r.idx].term = r.term
       /\ creq' = [creq EXCEPT ![c] = [pc |-> "acked"]]
       /\ ackedMax' = Max(ackedMax, r.idx)
    /\ UNCHANGED <<role, currentTerm, log, commitIndex, lastApplied, snapIndex, data, elections>>
    /\ UNCHANGED <<routerVars, serviceVars, clusterVars>>

\* the entry at index i of term t is committed on n
CommittedAt(n, i, t) == commitIndex[n] >= i /\ Len(log[n]) >= i /\ log[n][i].term = t

\* f.Error() returns ErrLeadershipLost: the node stepped down with the
\* entry in flight, not yet committed by its leader loop (the entry may
\* still commit later).  The future keeps its index and term.
FutureLost(c) ==
    /\ creq[c].pc = "wait"
    /\ LET r == creq[c] n == r.node IN
       /\ role[n] # "Leader" \/ currentTerm[n] # r.term
       /\ ~CommittedAt(n, r.idx, r.term)
       /\ creq' = [creq EXCEPT ![c] = [pc |-> "failed", err |-> "ErrLeadershipLost",
                                       idx |-> r.idx, term |-> r.term]]
    /\ UNCHANGED <<role, currentTerm, log, commitIndex, lastApplied, snapIndex, data, ackedMax, elections>>
    /\ UNCHANGED <<routerVars, serviceVars, clusterVars>>

(***************************************************************************)
(* Snapshots and restarts.                                                 *)
(***************************************************************************)
\* runSnapshots: once SnapshotThreshold entries follow the last snapshot the
\* engine calls RaftStore.Snapshot and persists the result. noopSnapshot's
\* Persist closes the sink without writing, which completes the snapshot at
\* the FSM's applied index.
TakeSnapshot(n) ==
    /\ Len(log[n]) - snapIndex[n] >= SnapshotThreshold
    /\ lastApplied[n] > snapIndex[n]
    /\ snapIndex' = [snapIndex EXCEPT ![n] = lastApplied[n]]
    /\ UNCHANGED <<role, currentTerm, log, commitIndex, lastApplied, data, creq, ackedMax, elections>>
    /\ UNCHANGED <<routerVars, serviceVars, clusterVars>>

\* RaftStore.Restore: returns nil and leaves the MemStore as it is.
Restore(d) == d

\* cfg.RaftLeader: one node of the deployment is started with the flag
RaftLeaderFlag(n) == n = Bootstrap

\* raft.HasExistingState: a term, a log entry or a snapshot is on disk
HasExistingState(n) ==
    currentTerm[n] > 0 \/ conf[n].ver > 0 \/ Len(log[n]) > 0 \/ snapIndex[n] > 0

BootstrapOnEveryStart(bootstrap, hasState) == bootstrap

BootstrapWithoutFlag(bootstrap, hasState) == ~hasState

\* setupRaft's test before r.BootstrapCluster
ShouldBootstrap(bootstrap, hasState) == bootstrap /\ ~hasState

\* the configuration setupRaft leaves on n's disk: a single-member one
\* when it bootstraps, else what was there
SetupConf(n) ==
    IF ShouldBootstrap(RaftLeaderFlag(n), HasExistingState(n))
    THEN Configuration(1, {n}, {})
    ELSE conf[n]

MainLoopsWithoutJoin(n) == "running"

MainLoopsJoinAlways(n) == "joining"

\* main: nonLeaderLoop runs on the nodes started without the flag
MainLoops(n) == IF RaftLeaderFlag(n) THEN "running" ELSE "joining"

\* A follower's process restarts: main builds a new MemStore, raft.NewRaft
\* restores the latest snapshot through RaftStore.Restore and resumes
\* applying after the snapshot's index; the commit index is learned
\* again from the leader.
Restart(n) ==
    /\ up[n] # "down"
    /\ role[n] # "Leader"
    /\ data' = [data EXCEPT ![n] = Restore(NewMemStore)]
    /\ lastApplied' = [lastApplied EXCEPT ![n] = snapIndex[n]]
    /\ commitIndex' = [commitIndex EXCEPT ![n] = 0]
    /\ conf' = [conf EXCEPT ![n] = SetupConf(n)]
    /\ up' = [up EXCEPT ![n] = MainLoops(n)]
    /\ UNCHANGED <<role, currentTerm, log, snapIndex, creq, ackedMax, elections>>
    /\ UNCHANGED <<routerVars, serviceVars, joins, duty>>

Next ==
    \/ \E n, m \in Nodes : Replicate(n, m)
    \/ \E n \in Nodes, i \in 1..MaxLog : AdvanceCommit(n, i)
    \/ \E n \in Nodes : ApplyFSM(n)
    \/ \E c \in Readers, n \in Nodes, k \in Keys : GetCheck(c, n, k)
    \/ \E c \in Readers : GetRead(c)
    \/ \E c \in Writers, n \in Nodes, cmd \in Commands : WriteCheck(c, n, cmd)
    \/ \E c \in Writers : RaftApply(c)
    \/ \E c \in Writers : FutureOk(c)

Spec == Init /\ [][Next]_vars

NextRestart ==
    \/ \E n, m \in Nodes : Replicate(n, m)
    \/ \E n \in Nodes, i \in 1..MaxLog : AdvanceCommit(n, i)
    \/ \E n \in Nodes : ApplyFSM(n)
    \/ \E n \in Nodes : TakeSnapshot(n)
    \/ \E n \in Nodes : Restart(n)
    \/ \E c \in Writers, n \in Nodes, cmd \in Commands : WriteCheck(c, n, cmd)
    \/ \E c \in Writers : RaftApply(c)
    \/ \E c \in Writers : FutureOk(c)

SpecRestart == Init /\ [][NextRestart]_vars

NextFailover ==
    \/ \E n \in Nodes, Q \in Quorums, t \in 2..MaxTerm : Elect(n, Q, t)
    \/ \E n, m \in Nodes : Replicate(n, m)
    \/ \E n \in Nodes : StepDown(n)
    \/ \E n \in Nodes, i \in 1..MaxLog : AdvanceCommit(n, i)
    \/ \E n \in Nodes : ApplyFSM(n)
    \/ \E c \in Readers, n \in Nodes, k \in FailoverKeys : GetCheck(c, n, k)
    \/ \E c \in Readers : GetRead(c)
    \/ \E c \in Writers, n \in Nodes, k \in FailoverKeys, v \in FailoverValues : WriteCheck(c, n, SetCommand(k, v))
    \/ \E c \in Writers, n \in Nodes, k \in FailoverKeys : WriteCheck(c, n, DeleteCommand(k))
    \/ \E c \in Writers : RaftApply(c)
    \/ \E c \in Writers : FutureOk(c)
    \/ \E c \in Writers : FutureLost(c)

SpecFailover == Init /\ [][NextFailover]_vars

(***************************************************************************)
(* The request router: the HTTP and gRPC handlers of a node.  A request    *)
(* is handled by a chain of handler calls, one per hop, kept in stack.     *)
(***************************************************************************)

\* the most handler calls one client request may have in flight
MaxHops == 2

\* the relay buffer of handleGet, and a value one byte longer than it
BufSize == 4096
BigLen == 4097
Big == "B"

RouterKey == "a"

ByteLen(v) == IF v = Big THEN BigLen ELSE Len(v)

Body(text) == [text |-> text, len |-> ByteLen(text)]

NoBody == [text |-> "", len |-> 0]

\* http.Error writes the message and a newline
ErrorBody(msg) == [text |-> msg, len |-> Len(msg) + 1]

\* one Read of the response body into buf [4096]byte
ReadOnce(b) == [text |-> b.text, len |-> Min(b.len, BufSize)]

HttpRequest(op, method, key, value, json) ==
    [surface |-> "http", op |-> op, method |-> method, key |-> key, value |-> value, json |-> json]

GrpcRequest(op, key, value) ==
    [surface |-> "grpc", op |-> op, method |-> "", key |-> key, value |-> value, json |-> TRUE]

Requests ==
    {HttpRequest("get", "GET", k, "", TRUE) : k \in {RouterKey, ""}}
      \cup {HttpRequest("get", "POST", RouterKey, "", TRUE)}
      \cup {HttpRequest("set", "POST", RouterKey, v, TRUE) : v \in {"x", Big}}
      \cup {HttpRequest("set", "POST", "", "", FALSE)}
      \cup {HttpRequest("delete", "POST", k, "", TRUE) : k \in {RouterKey, ""}}
      \cup {GrpcRequest("get", k, "") : k \in {RouterKey, ""}}
      \cup {GrpcRequest("set", RouterKey, "x"), GrpcRequest("delete", RouterKey, "")}

\* the method each HTTP route accepts
RouteMethod(op) == IF op = "get" THEN "GET" ELSE "POST"

\* a request that passes every check of its handler
Valid(req) ==
    /\ req.key # ""
    /\ req.surface = "http" => req.method = RouteMethod(req.op) /\ req.json

Frame(n, req) == [node |-> n, req |-> req, pc |-> "entry", checked |-> "", target |-> "", resp |-> None]

Top == stack[Len(stack)]

Reply(f, status, body, via, err) ==
    [status |-> status, body |-> body, via |-> via, err |-> err, node |-> f.node, req |-> f.req,
     checked |-> f.checked,
     upstream |-> IF f.resp = None THEN None
                  ELSE [status |-> f.resp.status, body |-> f.resp.body, via |-> f.resp.via]]

\* the handler call on top of the stack returns r: to the client, or to the
\* forwarding call of the handler below it
Return(r) ==
    IF Len(stack) = 1
    THEN stack' = <<>> /\ reply' = r
    ELSE /\ stack' = [SubSeq(stack, 1, Len(stack) - 1) EXCEPT
                        ![Len(stack) - 1].pc = "got", ![Len(stack) - 1].resp = r]
         /\ reply' = reply

\* a client sends a request to node n
StartRequest(n, req) ==
    /\ stack = <<>>
    /\ stack' = <<Frame(n, req)>>
    /\ reply' = None
    /\ atStart' = [log |-> log, data |-> data, looked |-> FALSE, forwarded |-> FALSE, proposed |-> FALSE]
    /\ UNCHANGED <<clusterVars, serviceVars, storeVars, regLeader>>

EarlyReplyWithoutMethodCheck(f) ==
    IF f.req.surface = "http"
    THEN None
    ELSE IF f.req.key = ""
         THEN Reply(f, "InvalidArgument", ErrorBody("key is required"), "invalid", "")
         ELSE None

\* what a handler answers before it looks at the node's role
EarlyReply(f) ==
    IF f.req.surface = "http"
    THEN IF f.req.method # RouteMethod(f.req.op)
         THEN Reply(f, "405", ErrorBody("Method not allowed"), "method", "")
         ELSE None
    ELSE IF f.req.key = ""
         THEN Reply(f, "InvalidArgument", ErrorBody("key is required"), "invalid", "")
         ELSE None

\* s.Raft.State() != raft.Leader
NotLeader(n) == role[n] # "Leader"

\* the head of handleGet/handleSet/handleDelete and of Get/Set/Delete, up
\* to and including the role check
HandlerEntry ==
    /\ stack # <<>>
    /\ Top.pc = "entry"
    /\ IF EarlyReply(Top) # None
       THEN Return(EarlyReply(Top))
       ELSE /\ stack' = [stack EXCEPT
                           ![Len(stack)].pc = IF NotLeader(Top.node) THEN "lookup" ELSE "serve",
                           ![Len(stack)].checked = IF NotLeader(Top.node) THEN "nonleader" ELSE "leader"]
            /\ reply' = reply
    /\ UNCHANGED <<clusterVars, serviceVars, storeVars, regLeader, atStart>>

\* the registry's GET /leader: the record, unless it is missing or expired
GetLeader == IF regLeader = None THEN "" ELSE regLeader.id

\* getLeaderHTTPAddr / getLeaderGRPCAddr; reachable: the registry can be reached
GetLeaderAddr(reachable) == IF ~reachable THEN "" ELSE GetLeader

NoLeaderReply(f) ==
    IF f.req.surface = "http"
    THEN Reply(f, "503", ErrorBody("Not leader and no leader known"), "noleader", "")
    ELSE Reply(f, "Unavailable", ErrorBody("Not leader and no leader known"), "noleader", "")

Lookup(reachable) ==
    /\ stack # <<>>
    /\ Top.pc = "lookup"
    /\ IF GetLeaderAddr(reachable) = ""
       THEN Return(NoLeaderReply(Top))
       ELSE /\ stack' = [stack EXCEPT ![Len(stack)].pc = "forward", ![Len(stack)].target = GetLeaderAddr(reachable)]
            /\ reply' = reply
    /\ atStart' = [atStart EXCEPT !.looked = TRUE]
    /\ UNCHANGED <<clusterVars, serviceVars, storeVars, regLeader>>

\* the request http.Get / http.Post / client.X sends to the leader
ForwardedRequest(req) ==
    IF req.surface = "http" THEN [req EXCEPT !.method = RouteMethod(req.op)] ELSE req

ForwardSend ==
    /\ stack # <<>>
    /\ Top.pc = "forward"
    /\ Len(stack) < MaxHops
    /\ stack' = Append([stack EXCEPT ![Len(stack)].pc = "await"],
                       Frame(Top.target, ForwardedRequest(Top.req)))
    /\ atStart' = [atStart EXCEPT !.forwarded = TRUE]
    /\ UNCHANGED <<clusterVars, serviceVars, storeVars, reply, regLeader>>

BadGatewayAsInternal(f, via) ==
    IF f.req.surface = "http"
    THEN Reply(f, "500", ErrorBody("Failed to forward to leader"), via, "")
    ELSE Reply(f, "Internal", ErrorBody("Cannot connect to leader"), via, "")

BadGatewayReply(f, via) ==
    IF f.req.surface = "http"
    THEN Reply(f, "502", ErrorBody("Failed to forward to leader"), via, "")
    ELSE Reply(f, "Unavailable", ErrorBody("Cannot connect to leader"), via, "")

\* the outbound call fails before the request reaches the leader
ForwardFail ==
    /\ stack # <<>>
    /\ Top.pc = "forward"
    /\ Return(BadGatewayReply(Top, "connfail"))
    /\ UNCHANGED <<clusterVars, serviceVars, storeVars, regLeader, atStart>>

\* the outbound call fails after the leader handled the request
ForwardLost ==
    /\ stack # <<>>
    /\ Top.pc = "got"
    /\ Return(BadGatewayReply(Top, "lost"))
    /\ UNCHANGED <<clusterVars, serviceVars, storeVars, regLeader, atStart>>

\* what the forwarding branch writes back for the leader's response r
Relay(f, r) ==
    IF f.req.surface = "grpc"
    THEN Reply(f, r.status, r.body, "relay", "")
    ELSE IF f.req.op = "get" /\ r.status = "200"
         THEN Reply(f, r.status, ReadOnce(r.body), "relay", "")
         ELSE Reply(f, r.status, NoBody, "relay", "")

ForwardRelay ==
    /\ stack # <<>>
    /\ Top.pc = "got"
    /\ Return(Relay(Top, Top.resp))
    /\ UNCHANGED <<clusterVars, serviceVars, storeVars, regLeader, atStart>>

\* s.Store.Get on the node's own map, and the reply built from it
ServeGet ==
    /\ stack # <<>>
    /\ Top.pc = "serve"
    /\ Top.req.op = "get"
    /\ LET f == Top
           got == RaftStoreGet(f.node, f.req.key)
       IN  IF f.req.surface = "grpc"
           THEN Return(Reply(f, "OK", [Value |-> got[1], Found |-> got[2]], "local", ""))
           ELSE IF f.req.key = ""
                THEN Return(Reply(f, "400", ErrorBody("Missing key parameter"), "invalid", ""))
                ELSE IF ~got[2]
                     THEN Return(Reply(f, "404", ErrorBody("Key not found"), "local", ""))
                     ELSE Return(Reply(f, "200", Body(got[1]), "local", ""))
    /\ UNCHANGED <<clusterVars, serviceVars, storeVars, regLeader, atStart>>

\* the body checks of handleSet / handleDelete
WriteInvalid(f) ==
    IF f.req.surface = "grpc" THEN None
    ELSE IF ~f.req.json THEN Reply(f, "400", ErrorBody("Invalid JSON"), "invalid", "")
    ELSE IF f.req.key = "" THEN Reply(f, "400", ErrorBody("Missing key field"), "invalid", "")
    ELSE None

\* the command RaftStore.Set / RaftStore.Delete marshals
Command(req) == IF req.op = "set" THEN SetCommand(req.key, req.value) ELSE DeleteCommand(req.key)

\* the reply of a handler whose Store.Set / Store.Delete returned err
StoreReply(f, err) ==
    IF f.req.surface = "http"
    THEN IF err = ""
         THEN Reply(f, "204", NoBody, "local", "")
         ELSE Reply(f, "500", ErrorBody(IF f.req.op = "set" THEN "Failed to set key"
                                        ELSE "Failed to delete key"), "local", err)
    ELSE IF err = ""
         THEN Reply(f, "OK", [Success |-> TRUE], "local", "")
         ELSE Reply(f, "Internal", ErrorBody(IF f.req.op = "set" THEN "failed to set key"
                                             ELSE "failed to delete key"), "local", err)

RECURSIVE ApplyLog(_, _)
\* the FSM applies the entries in order
ApplyLog(d, entries) ==
    IF entries = <<>> THEN d ELSE ApplyLog(Apply(d, Head(entries).data), Tail(entries))

\* the quorums the router specifications let form: between the nodes the
\* network is whole, so every node votes and stores every committed entry
Connected == {Q \in Quorums : Q = Nodes}

\* raft.Apply on leader n succeeds: the entry is stored on quorum Q,
\* committed, and applied
Committed(n, Q, bytes) ==
    LET newlog == Append(log[n], [term |-> currentTerm[n], data |-> bytes])
    IN  /\ log' = [m \in Nodes |-> IF m \in Q THEN newlog ELSE log[m]]
        /\ currentTerm' = [m \in Nodes |-> IF m \in Q THEN currentTerm[n] ELSE currentTerm[m]]
        /\ role' = [m \in Nodes |-> IF m \in Q \ {n} THEN "Follower" ELSE role[m]]
        /\ commitIndex' = [m \in Nodes |-> IF m \in Q THEN Len(newlog) ELSE commitIndex[m]]
        /\ lastApplied' = [m \in Nodes |-> IF m \in Q THEN Len(newlog) ELSE lastApplied[m]]
        /\ data' = [m \in Nodes |-> IF m \in Q
                                    THEN ApplyLog(data[m], SubSeq(newlog, lastApplied[m] + 1, Len(newlog)))
                                    ELSE data[m]]

\* raft.Apply on leader n fails with ErrLeadershipLost: the entry is in
\* n's log only and n has stepped down
LeadershipLost(n, bytes) ==
    /\ log' = [log EXCEPT ![n] = Append(@, [term |-> currentTerm[n], data |-> bytes])]
    /\ role' = [role EXCEPT ![n] = "Follower"]
    /\ UNCHANGED <<currentTerm, commitIndex, lastApplied, data>>

\* the body checks and the Store.Set / Store.Delete call of a handler
ServeWrite(ok) ==
    /\ stack # <<>>
    /\ Top.pc = "serve"
    /\ Top.req.op # "get"
    /\ LET f == Top
           n == f.node
       IN  IF WriteInvalid(f) # None
           THEN Return(WriteInvalid(f)) /\ UNCHANGED <<storeVars, atStart>>
           ELSE /\ atStart' = [atStart EXCEPT !.proposed = TRUE]
                /\ UNCHANGED <<snapIndex, creq, ackedMax, elections>>
                /\ IF NotLeader(n)
                   THEN /\ Return(StoreReply(f, "ErrNotLeader"))
                        /\ UNCHANGED <<role, currentTerm, log, commitIndex, lastApplied, data>>
                   ELSE /\ Len(log[n]) < MaxLog
                        /\ IF ok
                           THEN /\ \E Q \in Connected :
                                     /\ n \in Q
                                     /\ \A m \in Q : currentTerm[m] <= currentTerm[n]
                                     /\ Committed(n, Q, Command(f.req))
                                /\ Return(StoreReply(f, ""))
                           ELSE /\ LeadershipLost(n, Command(f.req))
                                /\ Return(StoreReply(f, "ErrLeadershipLost"))
    /\ UNCHANGED <<regLeader, clusterVars, serviceVars>>

(***************************************************************************)
(* The discovery registry's leader slot, as the router sees it.            *)
(***************************************************************************)

\* registerLeader on a leader-duties tick, and the registry's PUT /leader
RegisterLeader(n) ==
    /\ role[n] = "Leader"
    /\ regLeader' = [id |-> n]
    /\ UNCHANGED <<clusterVars, serviceVars, storeVars, stack, reply, atStart>>

\* more than leaderTTL passes without a PUT /leader: GET /leader answers
\* 404 from then on, and cleanupLoop removes the record
LeaderExpires ==
    /\ regLeader # None
    /\ regLeader' = None
    /\ UNCHANGED <<clusterVars, serviceVars, storeVars, stack, reply, atStart>>

\* what happens at the nodes and at the registry while requests are handled
Background ==
    /\ stack # <<>> \/ reply = None
    /\ \/ \E n \in Nodes, Q \in Connected, t \in 2..MaxTerm : Elect(n, Q, t)
       \/ \E n \in Nodes : StepDown(n)
       \/ \E n \in Nodes : RegisterLeader(n)
       \/ LeaderExpires

NextRouter ==
    \/ \E n \in Nodes, req \in Requests : StartRequest(n, req)
    \/ HandlerEntry
    \/ \E reachable \in BOOLEAN : Lookup(reachable)
    \/ ForwardSend
    \/ ForwardFail
    \/ ForwardLost
    \/ ForwardRelay
    \/ ServeGet
    \/ \E ok \in BOOLEAN : ServeWrite(ok)
    \/ Background

SpecRouter == Init /\ [][NextRouter]_vars

(***************************************************************************)
(* The handlers of internal/api: a non-leader does not forward.            *)
(***************************************************************************)

\* s.Raft.Leader(): the leader of the node's term, if the node knows one
RaftLeader(n) ==
    IF \E m \in Nodes : role[m] = "Leader" /\ currentTerm[m] = currentTerm[n]
    THEN CHOOSE m \in Nodes : role[m] = "Leader" /\ currentTerm[m] = currentTerm[n]
    ELSE ""

RedirectReply(f) ==
    IF RaftLeader(f.node) = ""
    THEN NoLeaderReply(f)
    ELSE IF f.req.surface = "http"
         THEN Reply(f, "307", ErrorBody("Not leader. Redirect to leader."), "redirect", "")
         ELSE Reply(f, "FailedPrecondition", ErrorBody("Not leader. Redirect to leader"), "redirect", "")

HandlerEntryRedirect ==
    /\ stack # <<>>
    /\ Top.pc = "entry"
    /\ IF EarlyReply(Top) # None
       THEN Return(EarlyReply(Top))
       ELSE IF NotLeader(Top.node)
            THEN Return(RedirectReply([Top EXCEPT !.checked = "nonleader"]))
            ELSE /\ stack' = [stack EXCEPT ![Len(stack)].pc = "serve", ![Len(stack)].checked = "leader"]
                 /\ reply' = reply
    /\ UNCHANGED <<clusterVars, serviceVars, storeVars, regLeader, atStart>>

NextRedirect ==
    \/ \E n \in Nodes, req \in Requests : StartRequest(n, req)
    \/ HandlerEntryRedirect
    \/ ServeGet
    \/ \E ok \in BOOLEAN : ServeWrite(ok)
    \/ Background

SpecRedirect == Init /\ [][NextRedirect]_vars

(***************************************************************************)
(* What the committed log says a key holds.                                *)
(***************************************************************************)
RECURSIVE LastWrite(_, _)
\* The value of the last set(k, v) in s that no delete(k) follows, or
\* not-present.
LastWrite(s, k) ==
    IF Len(s) = 0 THEN <<"", FALSE>>
    ELSE LET cmd == Unmarshal(s[Len(s)].data) IN
         IF cmd.Key = k /\ cmd.Op = "set" THEN <<cmd.Value, TRUE>>
         ELSE IF cmd.Key = k /\ cmd.Op = "delete" THEN <<"", FALSE>>
         ELSE LastWrite(SubSeq(s, 1, Len(s) - 1), k)

\* The map that holds, for every key, what the log s says it holds.
MapOf(s) == [k \in {x \in Keys : LastWrite(s, x)[2]} |-> LastWrite(s, k)[1]]

Answers(c) == creq[c].pc = "getServe" /\ creq'[c].pc = "getDone"

Answer(c) == <<creq'[c].value, creq'[c].found>>

\* C1: under a stable leader, a get answered at a quiescent point (no
\* proposal in flight) returns, for its key, the value of the last
\* committed set that no committed delete follows, and not-present
\* otherwise.
C1_QuiescentGet ==
    [][\A c \in Readers : Answers(c) /\ Quiescent =>
        Answer(c) = LastWrite(CommittedLog, creq[c].key)]_vars

\* C1 witness: a get answered not-present at a quiescent point after a
\* committed set and a committed delete of its key.
C1_Witness ==
    \E c \in Readers :
        /\ creq[c].pc = "getDone" /\ ~creq[c].found
        /\ Quiescent
        /\ Len(CommittedLog) = 2
        /\ Unmarshal(CommittedLog[1].data) = RaftCommand("set", creq[c].key, "x")
        /\ Unmarshal(CommittedLog[2].data) = RaftCommand("delete", creq[c].key, "")

\* C2: a get that a node answers from its own map, its role check having
\* reported Leader, reflects every write acknowledged before the get began:
\* it returns what the committed log held for the key at some point from
\* the last acknowledged write on.
C2_AckedWritesVisible ==
    [][\A c \in Readers : Answers(c) =>
        \E j \in creq[c].startAck..Len(CommittedLog) :
            Answer(c) = LastWrite(SubSeq(CommittedLog, 1, j), creq[c].key)]_vars

\* C3: every node's map is the application, from the empty map, of the first
\* j entries of the committed log for some j.
C3_MapIsCommittedPrefix ==
    \A n \in Nodes : \E j \in 0..Len(CommittedLog) :
        data[n] = MapOf(SubSeq(CommittedLog, 1, j))

\* C4: a write acknowledged under one leader is visible to every get that a
\* leader of a later term answers.
C4_AckedWritesSurviveFailover ==
    [][\A c \in Readers :
        /\ Answers(c)
        /\ creq[c].startAck >= 1
        /\ CommittedLog[creq[c].startAck].term < creq[c].term
        => \E j \in creq[c].startAck..Len(CommittedLog) :
               Answer(c) = LastWrite(SubSeq(CommittedLog, 1, j), creq[c].key)]_vars

(***************************************************************************)
(* Cluster formation: first starts, the join loop of the nodes started     *)
(* without the bootstrap flag, and the leader's duties loop.               *)
(***************************************************************************)

\* no process has started yet and every disk is empty
InitJoin ==
    /\ role = [n \in Nodes |-> "Follower"]
    /\ currentTerm = [n \in Nodes |-> 0]
    /\ log = [n \in Nodes |-> <<>>]
    /\ commitIndex = [n \in Nodes |-> 0]
    /\ lastApplied = [n \in Nodes |-> 0]
    /\ snapIndex = [n \in Nodes |-> 0]
    /\ data = [n \in Nodes |-> NewMemStore]
    /\ creq = [c \in Clients |-> Idle]
    /\ ackedMax = 0
    /\ elections = 0
    /\ stack = <<>>
    /\ reply = None
    /\ regLeader = None
    /\ atStart = None
    /\ up = [n \in Nodes |-> "down"]
    /\ conf = [n \in Nodes |-> NoConfiguration]
    /\ joins = {}
    /\ duty = [n \in Nodes |-> None]
    /\ InitServices
    /\ InitMonitor
    /\ InitLock
    /\ InitDuties

\* main on a node that is down: setupRaft, then the node's loops
Start(n) ==
    /\ up[n] = "down"
    /\ conf' = [conf EXCEPT ![n] = SetupConf(n)]
    /\ up' = [up EXCEPT ![n] = MainLoops(n)]
    /\ UNCHANGED <<storeVars, routerVars, serviceVars, joins, duty>>

\* one round of nonLeaderLoop: post the join request, then stop once the
\* node finds itself in its configuration
PostJoin(n) ==
    /\ up[n] = "joining"
    /\ joins' = joins \cup {n}
    /\ up' = [up EXCEPT ![n] = IF n \in Servers(conf[n]) THEN "running" ELSE "joining"]
    /\ UNCHANGED <<storeVars, routerVars, serviceVars, conf, duty>>

\* cleanupLoop drops a join request older than joinRequestTTL
JoinExpires(j) ==
    /\ j \in joins
    /\ joins' = joins \ {j}
    /\ UNCHANGED <<storeVars, routerVars, serviceVars, up, conf, duty>>

\* the leader's latest configuration is stored by a majority of its voters
ConfCommitted(n) == IsQuorum({m \in conf[n].voters : conf[m] = conf[n]}, conf[n].voters)

DutyAddNonvoterAnyId(n, j) ==
    /\ up[n] # "down"
    /\ role[n] = "Leader"
    /\ duty[n] = None
    /\ j \in joins
    /\ ConfCommitted(n)
    /\ conf' = [conf EXCEPT ![n] = IF j \in Servers(@) THEN @
                                   ELSE Configuration(@.ver + 1, @.voters, @.nonvoters \cup {j})]
    /\ duty' = [duty EXCEPT ![n] = [id |-> j, step |-> "nonvoter"]]
    /\ UNCHANGED <<storeVars, routerVars, serviceVars, up, joins>>

\* the joins loop of runLeaderDuties reaches request j: r.AddNonvoter
DutyAddNonvoter(n, j) ==
    /\ up[n] # "down"
    /\ role[n] = "Leader"
    /\ duty[n] = None
    /\ j \in joins
    /\ j # n
    /\ ConfCommitted(n)
    /\ conf' = [conf EXCEPT ![n] = IF j \in Servers(@) THEN @
                                   ELSE Configuration(@.ver + 1, @.voters, @.nonvoters \cup {j})]
    /\ duty' = [duty EXCEPT ![n] = [id |-> j, step |-> "nonvoter"]]
    /\ UNCHANGED <<storeVars, routerVars, serviceVars, up, joins>>

\* AddNonvoter's future returned nil: r.AddVoter
DutyAddVoter(n) ==
    /\ role[n] = "Leader"
    /\ duty[n] # None
    /\ duty[n].step = "nonvoter"
    /\ ConfCommitted(n)
    /\ conf' = [conf EXCEPT ![n] = IF duty[n].id \in @.voters THEN @
                                   ELSE Configuration(@.ver + 1, @.voters \cup {duty[n].id},
                                                      @.nonvoters \ {duty[n].id})]
    /\ duty' = [duty EXCEPT ![n].step = "voter"]
    /\ UNCHANGED <<storeVars, routerVars, serviceVars, up, joins>>

\* the drain deleting the request without waiting for AddVoter
DutyDeleteJoinUnpromoted(n) ==
    /\ role[n] = "Leader"
    /\ duty[n] # None
    /\ joins' = joins \ {duty[n].id}
    /\ duty' = [duty EXCEPT ![n] = None]
    /\ UNCHANGED <<storeVars, routerVars, serviceVars, up, conf>>

\* AddVoter's future returned nil: DELETE /join-requests?id=
DutyDeleteJoin(n) ==
    /\ role[n] = "Leader"
    /\ duty[n] # None
    /\ duty[n].step = "voter"
    /\ ConfCommitted(n)
    /\ joins' = joins \ {duty[n].id}
    /\ duty' = [duty EXCEPT ![n] = None]
    /\ UNCHANGED <<storeVars, routerVars, serviceVars, up, conf>>

\* a future returned an error because n is not leader any more: the loop
\* goes on to the state check and runLeaderDuties returns
DutyAbort(n) ==
    /\ role[n] # "Leader"
    /\ duty[n] # None
    /\ duty' = [duty EXCEPT ![n] = None]
    /\ UNCHANGED <<storeVars, routerVars, serviceVars, up, conf, joins>>

NextJoin ==
    \/ \E n \in Nodes : Start(n)
    \/ \E n \in Nodes : Restart(n)
    \/ \E n \in Nodes : PostJoin(n)
    \/ \E j \in Nodes : JoinExpires(j)
    \/ \E n, j \in Nodes : DutyAddNonvoter(n, j)
    \/ \E n \in Nodes : DutyAddVoter(n)
    \/ \E n \in Nodes : DutyDeleteJoin(n)
    \/ \E n \in Nodes : DutyAbort(n)
    \/ \E n \in Nodes, Q \in SUBSET Nodes, t \in 1..MaxTerm : Elect(n, Q, t)
    \/ \E n, m \in Nodes : Replicate(n, m)
    \/ \E n \in Nodes : StepDown(n)

SpecJoin == InitJoin /\ [][NextJoin]_vars

(***************************************************************************)
(* Claims about the request router.  A request is over when its reply is   *)
(* with the client: reply # None.                                          *)
(***************************************************************************)

\* C5: in every reachable state, for every term, at most one node
\* reports state Leader for that term
C5_OneLeaderPerTerm ==
    \A n, m \in Nodes :
      role[n] = "Leader" /\ role[m] = "Leader" /\ currentTerm[n] = currentTerm[m] => n = m

\* the cluster is formed and two nodes report Leader, the deposed leader
\* of the older term and the leader a quorum elected after it
C5_Witness ==
    \E n, m \in Nodes :
      /\ role[n] = "Leader" /\ role[m] = "Leader"
      /\ currentTerm[n] < currentTerm[m]
      /\ conf[m].voters = Nodes

Replied == stack = <<>> /\ reply # None

\* the replies handed back so far: to the client and to forwarding calls
Replies == ({stack[i].resp : i \in 1..Len(stack)} \cup {reply}) \ {None}

\* C6: a node whose role check reported a non-leader state never answers a
\* get from its own map and never proposes a set or delete; it forwards to
\* the registry's leader and relays the reply, and it answers with neither
\* a redirect nor a precondition error
C6_NonLeaderForwards ==
    /\ \A i \in 1..Len(stack) : stack[i].checked = "nonleader" => stack[i].pc # "serve"
    /\ \A r \in Replies :
         r.checked = "nonleader" =>
           /\ r.via \in {"relay", "noleader", "connfail", "lost"}
           /\ r.status \notin {"307", "FailedPrecondition"}

\* C7: forwarding transparency: when a follower relays the reply the
\* leader produced for a valid request, the client receives the leader's
\* status code and the leader's body
C7_ForwardingTransparency ==
    \A r \in Replies :
      r.via = "relay" /\ r.upstream.via = "local" =>
        r.status = r.upstream.status /\ r.body = r.upstream.body

Unchanged == log = atStart.log /\ data = atStart.data

\* the three outcomes of a valid request at a non-leader, by status
ThreeOutcomes(r) ==
    /\ r.via \in {"relay", "noleader", "connfail", "lost"}
    /\ r.via = "noleader" => r.status = (IF r.req.surface = "http" THEN "503" ELSE "Unavailable")
    /\ r.via \in {"connfail", "lost"} =>
         r.status = (IF r.req.surface = "http" THEN "502" ELSE "Unavailable")

\* C8: a valid request received by a non-leader ends in the leader's
\* relayed reply, in 503 / Unavailable when the registry gives no leader,
\* or in 502 / Unavailable when the outbound call fails; in the two error
\* outcomes no node's map or log has changed
C8_ThreeOutcomes ==
    Replied /\ reply.checked = "nonleader" /\ Valid(reply.req) =>
      /\ ThreeOutcomes(reply)
      /\ reply.via \in {"noleader", "connfail", "lost"} => Unchanged

\* C8 as amended: the same three outcomes; no node's map or log has
\* changed in the 503 outcome, nor in the 502 outcome when the outbound
\* call failed before the leader handled the request
C8_ThreeOutcomesAmended ==
    Replied /\ reply.checked = "nonleader" /\ Valid(reply.req) =>
      /\ ThreeOutcomes(reply)
      /\ reply.via \in {"noleader", "connfail"} => Unchanged

\* a follower had a leader record for a valid set but could not connect
C8_Witness ==
    /\ Replied
    /\ reply.checked = "nonleader"
    /\ reply.req = HttpRequest("set", "POST", RouterKey, "x", TRUE)
    /\ reply.via = "connfail"
    /\ reply.status = "502"
    /\ atStart.looked
    /\ \E n \in Nodes : Len(log[n]) > 0

\* C9: a proposal that fails with NotLeader, because leadership flipped
\* after the role check, makes the handler look the leader up again and
\* the client receives 503 / Unavailable; 500 / Internal is kept for
\* internal store failures
C9_NotLeaderRetried ==
    Replied /\ reply.via = "local" =>
      /\ reply.err = "ErrNotLeader" =>
           reply.status \in {"503", "Unavailable"} /\ atStart.looked
      /\ reply.status \in {"500", "Internal"} => reply.err # "ErrNotLeader"

\* a request of the right method whose key or body is malformed
Malformed(req) ==
    /\ req.surface = "http" => req.method = RouteMethod(req.op)
    /\ req.key = "" \/ ~req.json

\* C10: validation precedes the role check on both surfaces: a malformed
\* request is answered by the node that received it with 400 /
\* InvalidArgument, with no registry lookup, no forwarded request and no
\* proposal
C10_ValidationFirst ==
    Replied /\ Malformed(reply.req) =>
      /\ reply.via = "invalid"
      /\ reply.status \in {"400", "InvalidArgument"}
      /\ ~atStart.looked /\ ~atStart.forwarded /\ ~atStart.proposed

(***************************************************************************)
(* The registry "mandi" (cmd/kv-single/main.go) with its clock.  Time is   *)
(* counted in seconds.  cleanupLoop's ticker fires on time: the clock does *)
(* not pass a sweep that is due.                                           *)
(*                                                                         *)
(* SpecLeaderSlot    the leader slot: putLeader, getLeader, cleanupLoop.   *)
(* SpecJoinRequests  the join requests: postJoinRequest paced by the       *)
(*                   ticker of nonLeaderLoop, listJoinRequests,            *)
(*                   deleteJoinRequest, cleanupLoop.                       *)
(***************************************************************************)
leaderTTL == 10
joinRequestTTL == 30
cleanupEvery == 5
\* the ticker of nonLeaderLoop
JoinTicker == 2

\* Bound of the model: the clock stops here.
MaxTime == 36

LeaderIds == {"n1"}
JoinIds == {"n2"}

LeaderInfo(id, term, at) == [ID |-> id, Term |-> term, UpdatedAt |-> at]

JoinRequest(id, at) == [ID |-> id, StartedAt |-> at]

\* time.Since
Since(t) == now - t

Response(op, status, body) == [op |-> op, status |-> status, body |-> body]

LeaderAvailableWithoutTTL(st) == st.leader # None

\* getLeader's test: a record is served only while it is not older than
\* leaderTTL.
LeaderAvailable(st) == st.leader # None /\ ~(Since(st.leader.UpdatedAt) > leaderTTL)

getLeader ==
    /\ regOut' = IF LeaderAvailable(regStore)
                 THEN Response("getLeader", 200, regStore.leader)
                 ELSE Response("getLeader", 404, "leader not available")
    /\ UNCHANGED <<now, lastSweep, regStore, firstPosted>>
    /\ UNCHANGED <<storeVars, routerVars, clusterVars, metricsVars, monitorVars, lockVars>>

\* the UpdatedAt values a client may put into the body of PUT /leader
SentTimes == {0, MaxTime}

putLeaderKeepingSentTime(id, term, sent, wellFormed) ==
    /\ IF wellFormed
       THEN /\ regStore' = [regStore EXCEPT !.leader = LeaderInfo(id, term, sent)]
            /\ regOut' = Response("putLeader", 204, "")
       ELSE /\ regOut' = Response("putLeader", 400, "bad request")
            /\ UNCHANGED regStore
    /\ UNCHANGED <<now, lastSweep, firstPosted>>
    /\ UNCHANGED <<storeVars, routerVars, clusterVars, metricsVars, monitorVars, lockVars>>

\* putLeader decodes the body, id, term and UpdatedAt as sent, and stamps
\* the record itself: the UpdatedAt of the body is overwritten, the term is
\* stored as sent.
putLeader(id, term, sent, wellFormed) ==
    /\ IF wellFormed
       THEN /\ regStore' = [regStore EXCEPT !.leader = [LeaderInfo(id, term, sent) EXCEPT !.UpdatedAt = now]]
            /\ regOut' = Response("putLeader", 204, "")
       ELSE /\ regOut' = Response("putLeader", 400, "bad request")
            /\ UNCHANGED regStore
    /\ UNCHANGED <<now, lastSweep, firstPosted>>
    /\ UNCHANGED <<storeVars, routerVars, clusterVars, metricsVars, monitorVars, lockVars>>

\* postJoinRequest stamps StartedAt on every post, the first or a repeated
\* one, and overwrites the entry of the same ID.
postJoinRequest(id, wellFormed) ==
    /\ IF wellFormed
       THEN /\ regStore' = [regStore EXCEPT !.joinRequests =
                    [x \in (DOMAIN @) \cup {id} |-> IF x = id THEN JoinRequest(id, now) ELSE @[x]]]
            /\ firstPosted' = [x \in (DOMAIN firstPosted) \cup {id} |->
                                  IF x \in DOMAIN firstPosted THEN firstPosted[x] ELSE now]
            /\ regOut' = Response("postJoinRequest", 204, "")
       ELSE /\ regOut' = Response("postJoinRequest", 400, "bad request")
            /\ UNCHANGED <<regStore, firstPosted>>
    /\ UNCHANGED <<now, lastSweep>>
    /\ UNCHANGED <<storeVars, routerVars, clusterVars, metricsVars, monitorVars, lockVars>>

\* nonLeaderLoop posts when it starts and then on every tick of its ticker.
PostDue(id) ==
    IF id \in DOMAIN regStore.joinRequests
    THEN Since(regStore.joinRequests[id].StartedAt) >= JoinTicker
    ELSE TRUE

\* listJoinRequests copies every entry of the map into the response.
listJoinRequests ==
    /\ regOut' = Response("listJoinRequests", 200,
                          {regStore.joinRequests[id] : id \in DOMAIN regStore.joinRequests})
    /\ UNCHANGED <<now, lastSweep, regStore, firstPosted>>
    /\ UNCHANGED <<storeVars, routerVars, clusterVars, metricsVars, monitorVars, lockVars>>

deleteJoinRequestClearing(id) ==
    /\ IF id = ""
       THEN /\ regOut' = Response("deleteJoinRequest", 400, "missing id")
            /\ UNCHANGED <<regStore, firstPosted>>
       ELSE /\ regStore' = [regStore EXCEPT !.joinRequests = <<>>]
            /\ firstPosted' = <<>>
            /\ regOut' = Response("deleteJoinRequest", 204, "")
    /\ UNCHANGED <<now, lastSweep>>
    /\ UNCHANGED <<storeVars, routerVars, clusterVars, metricsVars, monitorVars, lockVars>>

\* deleteJoinRequest: 400 without an id, else delete(s.joinRequests, id)
deleteJoinRequest(id) ==
    /\ IF id = ""
       THEN /\ regOut' = Response("deleteJoinRequest", 400, "missing id")
            /\ UNCHANGED <<regStore, firstPosted>>
       ELSE /\ regStore' = [regStore EXCEPT !.joinRequests = [x \in (DOMAIN @) \ {id} |-> @[x]]]
            /\ firstPosted' = [x \in (DOMAIN firstPosted) \ {id} |-> firstPosted[x]]
            /\ regOut' = Response("deleteJoinRequest", 204, "")
    /\ UNCHANGED <<now, lastSweep>>
    /\ UNCHANGED <<storeVars, routerVars, clusterVars, metricsVars, monitorVars, lockVars>>

cleanupLoopAtTTL ==
    /\ now = lastSweep + cleanupEvery
    /\ lastSweep' = now
    /\ LET kept == {id \in DOMAIN regStore.joinRequests :
                       ~(Since(regStore.joinRequests[id].StartedAt) >= joinRequestTTL)}
       IN /\ regStore' = [leader |-> IF regStore.leader # None /\ Since(regStore.leader.UpdatedAt) >= leaderTTL
                                     THEN None ELSE regStore.leader,
                          joinRequests |-> [x \in kept |-> regStore.joinRequests[x]]]
          /\ firstPosted' = [x \in kept |-> firstPosted[x]]
    /\ UNCHANGED <<now, regOut>>
    /\ UNCHANGED <<storeVars, routerVars, clusterVars, metricsVars, monitorVars, lockVars>>

\* One round of cleanupLoop: drop the leader record and the join requests
\* that are older than their TTL.
cleanupLoop ==
    /\ now = lastSweep + cleanupEvery
    /\ lastSweep' = now
    /\ LET kept == {id \in DOMAIN regStore.joinRequests :
                       ~(Since(regStore.joinRequests[id].StartedAt) > joinRequestTTL)}
       IN /\ regStore' = [leader |-> IF regStore.leader # None /\ Since(regStore.leader.UpdatedAt) > leaderTTL
                                     THEN None ELSE regStore.leader,
                          joinRequests |-> [x \in kept |-> regStore.joinRequests[x]]]
          /\ firstPosted' = [x \in kept |-> firstPosted[x]]
    /\ UNCHANGED <<now, regOut>>
    /\ UNCHANGED <<storeVars, routerVars, clusterVars, metricsVars, monitorVars, lockVars>>

\* A second passes.  The response of the last request has been delivered.
Tick ==
    /\ now < MaxTime
    /\ now < lastSweep + cleanupEvery
    /\ now' = now + 1
    /\ regOut' = None
    /\ UNCHANGED <<lastSweep, regStore, firstPosted>>
    /\ UNCHANGED <<storeVars, routerVars, clusterVars, metricsVars, monitorVars, lockVars>>

NextLeaderSlot ==
    \/ Tick
    \/ cleanupLoop
    \/ getLeader
    \/ \E id \in LeaderIds, t \in 1..MaxTerm, sent \in SentTimes, wellFormed \in BOOLEAN :
          putLeader(id, t, sent, wellFormed)

SpecLeaderSlot == Init /\ [][NextLeaderSlot]_vars

NextJoinRequests ==
    \/ Tick
    \/ cleanupLoop
    \/ listJoinRequests
    \/ \E id \in JoinIds, wellFormed \in BOOLEAN : PostDue(id) /\ postJoinRequest(id, wellFormed)
    \/ \E id \in JoinIds \cup {""} : deleteJoinRequest(id)

SpecJoinRequests == Init /\ [][NextJoinRequests]_vars

\* C11: getLeader never answers with a leader record that is older than
\* leaderTTL, whether or not cleanupLoop has removed it: it answers 200 with
\* the stored record while the record is at most leaderTTL old, and 404
\* when there is no record or the record is older.
C11_LeaderRecordFresh ==
    regOut # None /\ regOut.op = "getLeader" =>
        IF regStore.leader # None /\ Since(regStore.leader.UpdatedAt) <= leaderTTL
        THEN regOut.status = 200 /\ regOut.body = regStore.leader
        ELSE regOut.status = 404

\* getLeader answered 404 for a record that expired and is still stored.
C11_Witness ==
    /\ regOut # None /\ regOut.op = "getLeader" /\ regOut.status = 404
    /\ regStore.leader # None
    /\ Since(regStore.leader.UpdatedAt) > leaderTTL

\* C12: listJoinRequests returns every stored join request that has not
\* expired and never one that is older than joinRequestTTL, whether or not
\* cleanupLoop has run.
C12_ListOmitsExpired ==
    regOut # None /\ regOut.op = "listJoinRequests" =>
        /\ \A r \in regOut.body : Since(r.StartedAt) <= joinRequestTTL
        /\ \A id \in DOMAIN regStore.joinRequests :
               Since(regStore.joinRequests[id].StartedAt) <= joinRequestTTL
                   => regStore.joinRequests[id] \in regOut.body

\* C13: a join request that nobody deleted leaves the registry no later
\* than joinRequestTTL plus one sweep interval after it was first inserted,
\* even while the node keeps posting it.
C13_JoinLifetimeBounded ==
    \A id \in DOMAIN regStore.joinRequests :
        Since(firstPosted[id]) <= joinRequestTTL + cleanupEvery

(***************************************************************************)
(* SpecJoinLive: cluster formation under a stable leader.  The bootstrap   *)
(* node is the only candidate and never steps down, no process restarts,   *)
(* the registry answers every call.  A node that is still joining posts    *)
(* its request every JoinTicker seconds, far more often than               *)
(* joinRequestTTL, so the sweeper removes only the request of a node that  *)
(* stopped posting.  Every loop that has a step to take takes it.          *)
(***************************************************************************)
JoinExpiresUnposted(j) == up[j] # "joining" /\ JoinExpires(j)

NextJoinLive ==
    \/ \E n \in Nodes : Start(n)
    \/ \E n \in Nodes : PostJoin(n)
    \/ \E j \in Nodes : JoinExpiresUnposted(j)
    \/ \E j \in Nodes : DutyAddNonvoter(Bootstrap, j)
    \/ DutyAddVoter(Bootstrap)
    \/ DutyDeleteJoin(Bootstrap)
    \/ \E Q \in SUBSET Nodes, t \in 1..MaxTerm : Elect(Bootstrap, Q, t)
    \/ \E m \in Nodes : Replicate(Bootstrap, m)

JoinFairness ==
    /\ \A n \in Nodes : WF_vars(PostJoin(n))
    /\ \A j \in Nodes : WF_vars(DutyAddNonvoter(Bootstrap, j))
    /\ WF_vars(DutyAddVoter(Bootstrap))
    /\ WF_vars(DutyDeleteJoin(Bootstrap))
    /\ \A m \in Nodes : WF_vars(Replicate(Bootstrap, m))

SpecJoinLive == InitJoin /\ [][NextJoinLive]_vars /\ JoinFairness

\* C14: under a stable leader, with the registry reachable and every loop
\* scheduled, a node started without the bootstrap flag eventually appears
\* in the cluster configuration, the leader's and its own.
C14_JoinLiveness ==
    \A n \in Nodes \ {Bootstrap} :
        (up[n] # "down" /\ role[Bootstrap] = "Leader")
            ~> (n \in Servers(conf[Bootstrap]) /\ n \in Servers(conf[n]))

\* both nodes started without the flag were admitted, promoted and have
\* left their join loops
C14_Witness ==
    /\ role[Bootstrap] = "Leader"
    /\ conf[Bootstrap].voters = Nodes
    /\ \A n \in Nodes : up[n] = "running" /\ conf[n] = conf[Bootstrap]
    /\ joins = {}

(***************************************************************************)
(* SpecAdvisory: cluster formation with a registry that fails.  The        *)
(* registry keeps its join requests in memory and accepts any POST, so     *)
(* after a crash, a lost state or a wrong POST the leader's duties loop    *)
(* reads whatever set of join requests the registry then holds.            *)
(***************************************************************************)
RegistryFault(J) ==
    /\ J # joins
    /\ joins' = J
    /\ UNCHANGED <<storeVars, routerVars, serviceVars, up, conf, duty>>

NextAdvisory ==
    \/ NextJoin
    \/ \E J \in SUBSET Nodes : RegistryFault(J)

SpecAdvisory == InitJoin /\ [][NextAdvisory]_vars

\* a leader can commit: the running voters of its configuration are a
\* majority of its voters
CanCommit(n) == IsQuorum({m \in conf[n].voters : up[m] # "down"}, conf[n].voters)

\* C15: the registry is advisory: whatever it loses or returns, no node's
\* log, term or role depends on it and the leader keeps serving: a running
\* leader always has a majority of running voters to commit with.
C15_RegistryAdvisory ==
    \A n \in Nodes : up[n] # "down" /\ role[n] = "Leader" => CanCommit(n)

(***************************************************************************)
(* Claims about writes on the leader (Spec).                               *)
(***************************************************************************)
\* every map a MemStore can hold over the model's keys and values
Stores == UNION {[K -> Values] : K \in SUBSET Keys}

\* the FSM of n applies the next entry of its log in this step
Applies(n) == lastApplied'[n] = lastApplied[n] + 1

\* C16: set and delete are idempotent on the leader: applying a command a
\* second time leaves the map as the first application left it, whatever
\* the map held before (the key present or absent), the map of a node that
\* applies the same command twice in a row does not change the second
\* time, and no call of the writer fails.
C16_Idempotent ==
    [][/\ \A n \in Nodes : Applies(n) =>
              LET e == log[n][lastApplied'[n]].data IN
              /\ \A d \in Stores : Apply(Apply(d, e), e) = Apply(d, e)
              /\ lastApplied[n] >= 1 /\ log[n][lastApplied[n]].data = e => data'[n] = data[n]
       /\ \A c \in Writers : creq'[c].pc # "failed"]_vars

\* the writer deleted the same key twice, both calls were acknowledged and
\* the leader applied both
C16_Witness ==
    /\ Len(log[Bootstrap]) = 2
    /\ log[Bootstrap][1].data = log[Bootstrap][2].data
    /\ Unmarshal(log[Bootstrap][1].data).Op = "delete"
    /\ lastApplied[Bootstrap] = 2
    /\ ackedMax = 2
    /\ \A c \in Writers : creq[c].pc = "acked"

\* the writer's calls so far were all acknowledged; under the stable
\* leader they stand in the leader's log in the order of their submission
AllAcked ==
    /\ \A c \in Writers : creq[c].pc = "acked"
    /\ ackedMax = Len(log[Bootstrap])

\* C18: two writes to the same key that the writer submitted one after the
\* other, each acknowledged, are applied in that order: after set then
\* delete the key is absent from the leader's map, after delete then set
\* (or set then set) it holds the value of the second write.
C18_SubmissionOrder ==
    AllAcked /\ Len(log[Bootstrap]) = 2 =>
        LET first == Unmarshal(log[Bootstrap][1].data)
            second == Unmarshal(log[Bootstrap][2].data)
        IN first.Key = second.Key =>
               MemGet(data[Bootstrap], second.Key) =
                   IF second.Op = "delete" THEN <<"", FALSE>> ELSE <<second.Value, TRUE>>

\* set(k, x) then delete(k), both acknowledged: k is absent
C18_Witness ==
    /\ AllAcked
    /\ Len(log[Bootstrap]) = 2
    /\ \E k \in Keys :
           /\ Unmarshal(log[Bootstrap][1].data) = RaftCommand("set", k, "x")
           /\ Unmarshal(log[Bootstrap][2].data) = RaftCommand("delete", k, "")
           /\ k \notin DOMAIN data[Bootstrap]

(***************************************************************************)
(* SpecPropose: the writer's calls of RaftStore.Set / Delete while leaders *)
(* change, with the engine's progress: a leader with a reachable majority  *)
(* replicates, commits and applies; a leader that a newer term has         *)
(* replaced finds out (a reply with the newer term, or its lease running   *)
(* out) and steps down.                                                    *)
(***************************************************************************)
\* the leader lease of n runs out: a majority follows a newer term
LeaseExpires(n) ==
    /\ \E m \in Nodes : currentTerm[m] > currentTerm[n]
    /\ StepDown(n)

NextPropose ==
    \/ \E n \in Nodes, Q \in Quorums, t \in 2..MaxTerm : Elect(n, Q, t)
    \/ \E n, m \in Nodes : Replicate(n, m)
    \/ \E n \in Nodes : StepDown(n)
    \/ \E n \in Nodes, i \in 1..MaxLog : AdvanceCommit(n, i)
    \/ \E n \in Nodes : ApplyFSM(n)
    \/ \E c \in Writers, n \in Nodes, k \in FailoverKeys, v \in FailoverValues : WriteCheck(c, n, SetCommand(k, v))
    \/ \E c \in Writers, n \in Nodes, k \in FailoverKeys : WriteCheck(c, n, DeleteCommand(k))
    \/ \E c \in Writers : RaftApply(c)
    \/ \E c \in Writers : FutureOk(c)
    \/ \E c \in Writers : FutureLost(c)

EngineFairness ==
    /\ \A n, m \in Nodes : WF_vars(Replicate(n, m))
    /\ \A n \in Nodes : WF_vars(LeaseExpires(n))
    /\ \A n \in Nodes, i \in 1..MaxLog : WF_vars(AdvanceCommit(n, i))
    /\ \A n \in Nodes : WF_vars(ApplyFSM(n))
    /\ \A c \in Writers : WF_vars(FutureOk(c)) /\ WF_vars(FutureLost(c))

SpecPropose == Init /\ [][NextPropose]_vars /\ EngineFairness

\* C17: every call of RaftStore.Set / Delete that submitted its entry
\* returns: with nil once the entry is committed and applied, or with an
\* error once the node has lost leadership; it does not block forever.
C17_ProposeReturns ==
    \A c \in Writers : creq[c].pc = "wait" ~> creq[c].pc \in {"acked", "failed"}

\* a call returned ErrLeadershipLost: its leader was replaced after it had
\* appended the entry
C17_Witness ==
    \E c \in Writers :
        /\ creq[c].pc = "failed" /\ creq[c].err = "ErrLeadershipLost"
        /\ \E n \in Nodes : role[n] = "Leader" /\ currentTerm[n] = MaxTerm

(***************************************************************************)
(* SpecMetrics: the InstrumentedStore (internal/store/instrumented.go)     *)
(* called by concurrent goroutines, and MetricsHandler.  A wrapper call    *)
(* is four steps: the call of the wrapped store, the two atomic adds, the  *)
(* return.  ResetMetrics is taken between bursts of calls.  The calls      *)
(* address a single key.                                                   *)
(***************************************************************************)
\* Bound of the model: wrapper calls between two resets.
MaxCalls == 3

\* time.Since(start).Nanoseconds(), in the model's unit
Elapsed == {0, 1}

Ops == {"get", "set", "delete"}

CountField == [get |-> "GetCount", set |-> "SetCount", delete |-> "DeleteCount"]

LatencyField == [get |-> "GetLatencyNs", set |-> "SetLatencyNs", delete |-> "DeleteLatencyNs"]

\* The wrapped kv.Store: a MemStore, or a store whose Set / Delete can
\* return an error and then leave the map alone (RaftStore off the leader).
StoreCall(d, op, k, v, fails) ==
    CASE op = "get" -> [store |-> d, ret |-> MemGet(d, k)]
      [] fails -> [store |-> d, ret |-> "error"]
      [] op = "set" -> [store |-> MemSet(d, k, v), ret |-> "nil"]
      [] OTHER -> [store |-> MemDelete(d, k), ret |-> "nil"]

InstrumentedCallDroppingError(s, op, k, v, fails) ==
    LET r == StoreCall(s.store, op, k, v, fails)
    IN [store |-> r.store, ret |-> IF op = "get" THEN r.ret ELSE "nil"]

\* InstrumentedStore.Get / Set / Delete: what the wrapper hands to the
\* wrapped store and what it returns to its caller.
InstrumentedCall(s, op, k, v, fails) ==
    LET r == StoreCall(s.store, op, k, v, fails)
    IN [store |-> r.store, ret |-> r.ret]

AddOverwriting(m, field, delta) == [m EXCEPT ![field] = delta]

\* atomic.Uint64.Add
AtomicAdd(m, field, delta) == [m EXCEPT ![field] = @ + delta]

InFlight(g) == mcalls[g].pc \in {"count", "latency", "return"}

Started == completed.get + completed.set + completed.delete + Cardinality({g \in Goroutines : InFlight(g)})

\* start := time.Now(); the call of the wrapped store
Delegate(g, op, k, v, fails) ==
    /\ ~InFlight(g)
    /\ Started < MaxCalls
    /\ LET r == InstrumentedCall(istore, op, k, v, fails)
           bare == StoreCall(direct, op, k, v, fails)
       IN /\ istore' = [istore EXCEPT !.store = r.store]
          /\ direct' = bare.store
          /\ mcalls' = [mcalls EXCEPT ![g] = [pc |-> "count", op |-> op, ret |-> r.ret, bare |-> bare.ret]]
    /\ UNCHANGED completed
    /\ UNCHANGED <<storeVars, routerVars, clusterVars, registryVars, monitorVars, lockVars>>

\* s.metrics.GetCount.Add(1), SetCount, DeleteCount
CountAdd(g) ==
    /\ mcalls[g].pc = "count"
    /\ istore' = [istore EXCEPT !.metrics = AtomicAdd(@, CountField[mcalls[g].op], 1)]
    /\ mcalls' = [mcalls EXCEPT ![g].pc = "latency"]
    /\ UNCHANGED <<direct, completed>>
    /\ UNCHANGED <<storeVars, routerVars, clusterVars, registryVars, monitorVars, lockVars>>

\* s.metrics.GetLatencyNs.Add(uint64(elapsed)), SetLatencyNs, DeleteLatencyNs
LatencyAdd(g, elapsed) ==
    /\ mcalls[g].pc = "latency"
    /\ istore' = [istore EXCEPT !.metrics = AtomicAdd(@, LatencyField[mcalls[g].op], elapsed)]
    /\ mcalls' = [mcalls EXCEPT ![g].pc = "return"]
    /\ UNCHANGED <<direct, completed>>
    /\ UNCHANGED <<storeVars, routerVars, clusterVars, registryVars, monitorVars, lockVars>>

\* return value, found / return err
CallReturn(g) ==
    /\ mcalls[g].pc = "return"
    /\ mcalls' = [mcalls EXCEPT ![g].pc = "done"]
    /\ completed' = [completed EXCEPT ![mcalls[g].op] = @ + 1]
    /\ UNCHANGED <<istore, direct>>
    /\ UNCHANGED <<storeVars, routerVars, clusterVars, registryVars, monitorVars, lockVars>>

avgLatency(totalNs, count) == IF count = 0 THEN 0 ELSE totalNs \div count

\* GetMetrics: the snapshot of the six counters
GetMetrics(s) ==
    [GetCount |-> s.metrics.GetCount,
     SetCount |-> s.metrics.SetCount,
     DeleteCount |-> s.metrics.DeleteCount,
     GetAvgLatency |-> avgLatency(s.metrics.GetLatencyNs, s.metrics.GetCount),
     SetAvgLatency |-> avgLatency(s.metrics.SetLatencyNs, s.metrics.SetCount),
     DeleteAvgLatency |-> avgLatency(s.metrics.DeleteLatencyNs, s.metrics.DeleteCount)]

\* GET /metrics: 405 for another method, else the snapshot as JSON
MetricsHandler(g, method) ==
    /\ ~InFlight(g)
    /\ mcalls' = [mcalls EXCEPT ![g] =
           IF method # "GET"
           THEN [pc |-> "done", op |-> "metrics", ret |-> 405, bare |-> 405]
           ELSE LET metrics == GetMetrics(istore) IN
                [pc |-> "done", op |-> "metrics",
                 ret |-> [get |-> metrics.GetCount, set |-> metrics.SetCount, delete |-> metrics.DeleteCount],
                 bare |-> completed]]
    /\ UNCHANGED <<istore, direct, completed>>
    /\ UNCHANGED <<storeVars, routerVars, clusterVars, registryVars, monitorVars, lockVars>>

\* ResetMetrics stores zero in each of the six counters
ResetMetrics ==
    /\ \A g \in Goroutines : ~InFlight(g)
    /\ istore.metrics # NewMetrics
    /\ istore' = [istore EXCEPT !.metrics = NewMetrics]
    /\ completed' = NoCalls
    /\ UNCHANGED <<mcalls, direct>>
    /\ UNCHANGED <<storeVars, routerVars, clusterVars, registryVars, monitorVars, lockVars>>

NextMetrics ==
    \/ \E g \in Goroutines, op \in Ops, k \in FailoverKeys, v \in Values, fails \in BOOLEAN : Delegate(g, op, k, v, fails)
    \/ \E g \in Goroutines : CountAdd(g)
    \/ \E g \in Goroutines, elapsed \in Elapsed : LatencyAdd(g, elapsed)
    \/ \E g \in Goroutines : CallReturn(g)
    \/ \E g \in Goroutines, method \in {"GET", "POST"} : MetricsHandler(g, method)
    \/ ResetMetrics

SpecMetrics == Init /\ [][NextMetrics]_vars

\* the calls of op that have added to the count and not yet returned
Counted(op) == Cardinality({g \in Goroutines : mcalls[g].pc \in {"latency", "return"} /\ mcalls[g].op = op})

\* C19: no update of a counter is lost: at every point the count of each
\* operation is the number of its calls completed since the last reset
\* plus the calls that have counted and not yet returned; once no call is
\* in flight the snapshot reports exactly the completed calls.
C19_CountsExact ==
    \A op \in Ops : GetMetrics(istore)[CountField[op]] = completed[op] + Counted(op)

\* two concurrent set calls have both counted and not yet returned, after
\* a get that completed
C19_Witness ==
    /\ \A g \in Goroutines : mcalls[g].pc = "return" /\ mcalls[g].op = "set"
    /\ completed.get = 1
    /\ istore.metrics.SetCount = 2

\* C20: the wrapper is a pure pass-through: every Get / Set / Delete made
\* through it returns what the wrapped store returns to a direct call, and
\* the wrapped store holds what a store called directly holds, whatever
\* GetMetrics and ResetMetrics calls come between.
C20_PassThrough ==
    /\ istore.store = direct
    /\ \A g \in Goroutines : mcalls[g].pc # "idle" /\ mcalls[g].op \in Ops => mcalls[g].ret = mcalls[g].bare

\* a delete through the wrapper returned the wrapped store's error, the
\* key is stored and the metrics have been reset
C20_Witness ==
    /\ \E g \in Goroutines : mcalls[g].pc = "done" /\ mcalls[g].op = "delete" /\ mcalls[g].ret = "error"
    /\ istore.metrics = NewMetrics
    /\ istore.store # NewMemStore

(***************************************************************************)
(* Claims about cluster formation (SpecJoin).                              *)
(***************************************************************************)
\* n's disk receives the single-member configuration r.BootstrapCluster
\* writes
Bootstraps(n) == conf'[n] # conf[n] /\ conf'[n] = Configuration(1, {n}, {})

\* C21: only a node that has the bootstrap flag and no persisted state
\* writes an initial configuration, and a configuration of several servers
\* is never replaced by one of a single server.
C21_BootstrapOnlyAtFirstStart ==
    [][\A n \in Nodes :
          /\ Bootstraps(n) => RaftLeaderFlag(n) /\ ~HasExistingState(n)
          /\ Cardinality(Servers(conf[n])) > 1 => Cardinality(Servers(conf'[n])) > 1]_vars

\* the cluster is formed, the bootstrap node is a follower again (it can
\* restart) and a node started without the flag runs setupRaft and its join
\* loop on a disk that already holds the full configuration
C21_Witness ==
    /\ conf[Bootstrap].voters = Nodes
    /\ role[Bootstrap] # "Leader"
    /\ \E n \in Nodes \ {Bootstrap} :
           up[n] = "joining" /\ conf[n] = conf[Bootstrap] /\ n \notin joins

(***************************************************************************)
(* Claims about the replies of the leader (SpecRouter).                    *)
(***************************************************************************)
\* the reply the interface documents for request req on a leader whose map
\* is d: status and body
Documented(req, d) ==
    IF req.surface = "http"
    THEN IF req.method # RouteMethod(req.op) THEN <<"405", ErrorBody("Method not allowed")>>
         ELSE IF req.op = "get"
              THEN IF req.key = "" THEN <<"400", ErrorBody("Missing key parameter")>>
                   ELSE IF req.key \in DOMAIN d THEN <<"200", Body(d[req.key])>>
                   ELSE <<"404", ErrorBody("Key not found")>>
              ELSE IF ~req.json THEN <<"400", ErrorBody("Invalid JSON")>>
                   ELSE IF req.key = "" THEN <<"400", ErrorBody("Missing key field")>>
                   ELSE <<"204", NoBody>>
    ELSE IF req.key = "" THEN <<"InvalidArgument", ErrorBody("key is required")>>
         ELSE IF req.op = "get"
              THEN <<"OK", [Value |-> IF req.key \in DOMAIN d THEN d[req.key] ELSE "",
                            Found |-> req.key \in DOMAIN d]>>
              ELSE <<"OK", [Success |-> TRUE]>>

MonitorPoll(n) ==
    /\ up[n] # "down"
    /\ monitor[n] = "idle"
    /\ role[n] = "Leader"
    /\ monitor' = [monitor EXCEPT ![n] = "check"]
    /\ UNCHANGED <<storeVars, routerVars, clusterVars, registryVars, metricsVars, lockVars, duties>>

\* the top of runLeaderDuties' loop: return when r.State() is not Leader,
\* else block in the select until a ticker fires
DutiesCheck(n) ==
    /\ monitor[n] = "check"
    /\ monitor' = [monitor EXCEPT ![n] = IF role[n] # "Leader" THEN "idle" ELSE "select"]
    /\ UNCHANGED <<storeVars, routerVars, clusterVars, registryVars, metricsVars, lockVars, duties>>

\* leaderTicker fires: registerLeader sends the node's id and
\* r.CurrentTerm(); when the PUT is delivered putLeader replaces the slot and
\* stamps UpdatedAt, and the error of a failed PUT is dropped
LeaderTick(n, delivered) ==
    /\ monitor[n] = "select"
    /\ regStore' = IF delivered
                   THEN [regStore EXCEPT !.leader = LeaderInfo(n, currentTerm[n], now)]
                   ELSE regStore
    /\ monitor' = [monitor EXCEPT ![n] = "check"]
    /\ UNCHANGED <<now, lastSweep, regOut, firstPosted>>
    /\ UNCHANGED <<storeVars, routerVars, clusterVars, metricsVars, lockVars, duties>>

NextPublish ==
    \/ \E n \in Nodes, Q \in Quorums, t \in 2..MaxTerm : Elect(n, Q, t)
    \/ \E n, m \in Nodes : Replicate(n, m)
    \/ \E n \in Nodes : LeaseExpires(n)
    \/ \E n \in Nodes : MonitorPoll(n)
    \/ \E n \in Nodes : DutiesCheck(n)
    \/ \E n \in Nodes, delivered \in BOOLEAN : LeaderTick(n, delivered)

\* the tickers and the 500 ms poll keep firing, the registry is reachable
\* again and again, and the engine's lease runs out
PublishFairness ==
    /\ \A n \in Nodes : WF_vars(MonitorPoll(n)) /\ WF_vars(DutiesCheck(n))
    /\ \A n \in Nodes : SF_vars(LeaderTick(n, TRUE))
    /\ \A n \in Nodes : WF_vars(LeaseExpires(n))
    /\ \A n, m \in Nodes : WF_vars(Replicate(n, m))

SpecPublish == Init /\ [][NextPublish]_vars /\ PublishFairness

\* n leads the last term: no election can replace it, it stays leader
NewLeader(n) == role[n] = "Leader" /\ currentTerm[n] = MaxTerm /\ n # Bootstrap

\* GET /leader returns n's record: its id and its current term
Published(n) ==
    /\ LeaderAvailable(regStore)
    /\ regStore.leader.ID = n
    /\ regStore.leader.Term = currentTerm[n]

\* C23: after a leadership change, while the new leader stays leader and
\* the registry is reachable, GET /leader eventually returns the new
\* leader's record (its id and current term), and from then on it never
\* returns another node's record
C23_NewLeaderPublished ==
    \A n \in Nodes :
      /\ NewLeader(n) ~> Published(n)
      /\ [](NewLeader(n) /\ Published(n) => [](LeaderAvailable(regStore) => regStore.leader.ID = n))

\* n sends put_leader, or calls add_nonvoter or promote_to_voter, or sends
\* delete_join
LeaderDuty(n) ==
    \/ \E delivered \in BOOLEAN : LeaderTick(n, delivered)
    \/ \E j \in Nodes : DutyAddNonvoter(n, j)
    \/ DutyAddVoter(n)
    \/ DutyDeleteJoin(n)

\* C24: a node performs leader duties only while its engine reports
\* Leader: once the engine reports a non-leader state the node sends no
\* put_leader, add_nonvoter, promote_to_voter or delete_join until the
\* engine reports Leader again
C24_DutiesOnlyWhileLeader ==
    [][\A n \in Nodes : LeaderDuty(n) => role[n] = "Leader"]_vars

\* leader n makes j a voter in this step: AddVoter took effect
Promotes(n, j) ==
    role[n] = "Leader" /\ role'[n] = "Leader" /\ j \notin conf[n].voters /\ j \in conf'[n].voters

\* the join request of j is deleted by a leader's DELETE, not by the sweeper
Deletes(n, j) == j \in joins /\ j \notin joins' /\ duty[n] # duty'[n]

C26_JoinLoop ==
    /\ [][\A n \in Nodes :
            /\ PostJoin(n) => n \in joins' /\ (up'[n] = "joining" <=> n \notin Servers(conf[n]))
            /\ up[n] = "joining" /\ up'[n] = "running" => n \in Servers(conf[n])
            /\ n \notin joins /\ n \in joins' => up[n] = "joining"
            /\ up[n] = "running" => up'[n] = "running"]_vars
    /\ \A n \in Nodes : [](RaftLeaderFlag(n) => up[n] # "joining")
    /\ \A n \in Nodes : up[n] = "joining" ~> (n \in joins \/ up[n] = "running")
    /\ \A n \in Nodes : (up[n] = "joining" /\ n \in Servers(conf[n])) ~> up[n] = "running"

\* one node started without the flag has found its id in its configuration
\* and left the loop, another is still posting
C26_Witness ==
    \E n, m \in Nodes \ {Bootstrap} :
      /\ up[n] = "running" /\ n \in conf[n].voters
      /\ up[m] = "joining" /\ m \in joins /\ m \notin Servers(conf[m])

\* C27: after a restart, or a snapshot installed through Restore, a node's
\* map equals the application of every entry from the first one up to its
\* applied index, also when a snapshot covers a prefix of the log
C27_MapIsAppliedPrefix ==
    \A n \in Nodes : data[n] = MapOf(SubSeq(log[n], 1, lastApplied[n]))

(***************************************************************************)
(* SpecForwardWire: the hop from a forwarding follower to the leader, with *)
(* the key as a sequence of characters and the URL handling of net/url and *)
(* net/http spelled out.  SpecRouter's keys are plain, so there the hop    *)
(* keeps them; here the key may hold characters that the query string      *)
(* gives a meaning to.                                                     *)
(***************************************************************************)
MaxKeyLen == 3

\* a plain letter, the characters a query string reserves, and two digits
Chars == {"k", "&", "#", "+", "%", " ", "2", "6"}

KeyStrings == UNION {[1..l -> Chars] : l \in 1..MaxKeyLen}

ContentTypes == {"application/json", "text/plain"}

\* url.QueryEscape of one character
EscapeChar(c) ==
    CASE c = " " -> <<"+">>
      [] c = "&" -> <<"%", "2", "6">>
      [] c = "#" -> <<"%", "2", "3">>
      [] c = "+" -> <<"%", "2", "B">>
      [] c = "%" -> <<"%", "2", "5">>
      [] OTHER   -> <<c>>

RECURSIVE QueryEscape(_)
QueryEscape(s) == IF s = <<>> THEN <<>> ELSE EscapeChar(Head(s)) \o QueryEscape(Tail(s))

IsHex(c) == c \in {"2", "3", "5", "6", "B"}

\* the character with the hexadecimal code h1 h2
Unhex(h1, h2) ==
    CASE <<h1, h2>> = <<"2", "6">> -> "&"
      [] <<h1, h2>> = <<"2", "3">> -> "#"
      [] <<h1, h2>> = <<"2", "B">> -> "+"
      [] <<h1, h2>> = <<"2", "5">> -> "%"
      [] <<h1, h2>> = <<"2", "2">> -> "\""
      [] <<h1, h2>> = <<"6", "2">> -> "b"
      [] <<h1, h2>> = <<"6", "6">> -> "f"
      [] OTHER -> "?"

RECURSIVE WellEscaped(_)
\* url.QueryUnescape's first pass: every % is followed by two hex digits
WellEscaped(s) ==
    IF s = <<>> THEN TRUE
    ELSE IF Head(s) = "%"
         THEN Len(s) >= 3 /\ IsHex(s[2]) /\ IsHex(s[3]) /\ WellEscaped(SubSeq(s, 4, Len(s)))
         ELSE WellEscaped(Tail(s))

RECURSIVE QueryUnescape(_)
\* url.QueryUnescape of a well escaped string: + is a space, %XX a byte
QueryUnescape(s) ==
    IF s = <<>> THEN <<>>
    ELSE IF Head(s) = "%" THEN <<Unhex(s[2], s[3])>> \o QueryUnescape(SubSeq(s, 4, Len(s)))
    ELSE IF Head(s) = "+" THEN <<" ">> \o QueryUnescape(Tail(s))
    ELSE <<Head(s)>> \o QueryUnescape(Tail(s))

RECURSIVE Before(_, _)
\* strings.Cut: the part of s before the first c
Before(s, c) == IF s = <<>> \/ Head(s) = c THEN <<>> ELSE <<Head(s)>> \o Before(Tail(s), c)

\* r.URL.Query().Get("key") for the raw query "key=" + q: the first pair
\* ends at the first &, and a pair that does not unescape is dropped
QueryGet(q) ==
    LET pair == Before(q, "&")
    IN  IF WellEscaped(pair) THEN QueryUnescape(pair) ELSE <<>>

Refused == [refused |-> TRUE]

WireRequest(surface, op, method, ctype, key) ==
    [surface |-> surface, op |-> op, method |-> method, ctype |-> ctype, key |-> key]

\* what a handler is called with for the request line "GET /get?key=" + q:
\* url.Parse cuts the fragment off at the first #; a space ends the
\* request target, so the server refuses the line before any handler runs
ServerGet(q) ==
    IF \E i \in 1..Len(Before(q, "#")) : q[i] = " "
    THEN Refused
    ELSE WireRequest("http", "get", "GET", "", QueryGet(Before(q, "#")))

WireRequests ==
    {WireRequest("http", "get", "GET", "", k) : k \in KeyStrings}
      \cup {WireRequest("grpc", "get", "", "", k) : k \in KeyStrings}
      \cup {WireRequest("http", op, "POST", t, <<c>>) : op \in {"set", "delete"}, t \in ContentTypes, c \in Chars}

\* the request the follower's client library puts on the wire, as the
\* leader's handler gets it: handleGet appends the decoded key to the URL,
\* handleSet / handleDelete post the body as application/json, the gRPC
\* methods pass the message on
ForwardedWire(req) ==
    IF req.surface = "grpc" THEN req
    ELSE IF req.op = "get" THEN ServerGet(req.key)
    ELSE [req EXCEPT !.ctype = "application/json"]

\* a client sends req to the follower n; its own library escapes the key
ClientSends(n, req) ==
    /\ stack = <<>>
    /\ NotLeader(n)
    /\ stack' = <<Frame(n, IF req.surface = "http" /\ req.op = "get"
                           THEN ServerGet(QueryEscape(req.key)) ELSE req)>>
    /\ UNCHANGED <<clusterVars, serviceVars, storeVars, reply, regLeader, atStart>>

\* the follower forwards to the leader
ForwardWire ==
    /\ Len(stack) = 1
    /\ stack' = Append(stack, Frame(Bootstrap, ForwardedWire(Top.req)))
    /\ UNCHANGED <<clusterVars, serviceVars, storeVars, reply, regLeader, atStart>>

\* the leader has answered and the follower has relayed
HopDone ==
    /\ Len(stack) = 2
    /\ stack' = <<>>
    /\ UNCHANGED <<clusterVars, serviceVars, storeVars, reply, regLeader, atStart>>

NextForwardWire ==
    \/ \E n \in Nodes, req \in WireRequests : ClientSends(n, req)
    \/ ForwardWire
    \/ HopDone

SpecForwardWire == Init /\ [][NextForwardWire]_vars

\* C28: the request the leader receives from a forwarding follower equals
\* the client's request: same method, content type and body, and for get
\* the same key, whatever characters the key holds
C28_ForwardedEqualsClient ==
    Len(stack) = 2 => stack[2].req = stack[1].req

(***************************************************************************)
(* SpecRegistryOps: the registry's five handlers on one Store, leader slot *)
(* and join requests together, between two rounds of cleanupLoop.          *)
(***************************************************************************)
OpIds == {"n2", "n3"}

NextRegistryOps ==
    \/ Tick
    \/ getLeader
    \/ \E id \in LeaderIds, t \in 1..MaxTerm, sent \in SentTimes, wellFormed \in BOOLEAN :
          putLeader(id, t, sent, wellFormed)
    \/ listJoinRequests
    \/ \E id \in OpIds, wellFormed \in BOOLEAN : postJoinRequest(id, wellFormed)
    \/ \E id \in OpIds \cup {""} : deleteJoinRequest(id)

SpecRegistryOps == Init /\ [][NextRegistryOps]_vars

\* C29: put_leader(r) leaves in the slot exactly r's id and term with
\* updated_at set to the registry's own clock, whatever updated_at the
\* client sent, and leaves the join requests unchanged; repeating the same
\* put changes nothing but updated_at; an undecodable body is answered 400
\* and changes nothing
C29_PutLeaderFrame ==
    [][\A id \in LeaderIds, t \in 1..MaxTerm, sent \in SentTimes :
         /\ putLeader(id, t, sent, TRUE) =>
              /\ regStore'.leader = LeaderInfo(id, t, now)
              /\ regStore'.joinRequests = regStore.joinRequests
              /\ regOut'.status = 204
              /\ regStore.leader # None /\ regStore.leader.ID = id /\ regStore.leader.Term = t
                   => regStore' = [regStore EXCEPT !.leader.UpdatedAt = now]
         /\ putLeader(id, t, sent, FALSE) => regStore' = regStore /\ regOut'.status = 400]_vars

\* a put was answered 204 at a time no client sent, with the join requests
\* of both nodes stored
C29_Witness ==
    /\ regOut # None /\ regOut.op = "putLeader" /\ regOut.status = 204
    /\ regStore.leader.UpdatedAt = now /\ now > 0 /\ now \notin SentTimes
    /\ DOMAIN regStore.joinRequests = OpIds

\* C30: delete_join(id) removes the join request of id and nothing else:
\* every other join request and the leader slot stay as they are; an id
\* without a request is answered 204 and no id is answered 400, both with
\* the registry unchanged
C30_DeleteJoinFrame ==
    [][\A id \in OpIds \cup {""} :
         deleteJoinRequest(id) =>
           /\ regStore'.leader = regStore.leader
           /\ DOMAIN regStore'.joinRequests = (DOMAIN regStore.joinRequests) \ {id}
           /\ \A x \in DOMAIN regStore'.joinRequests : regStore'.joinRequests[x] = regStore.joinRequests[x]
           /\ regOut'.status = IF id = "" THEN 400 ELSE 204
           /\ id \notin DOMAIN regStore.joinRequests => regStore' = regStore]_vars

\* a request was deleted while another one and a leader record are stored
C30_Witness ==
    /\ regOut # None /\ regOut.op = "deleteJoinRequest" /\ regOut.status = 204
    /\ regStore.leader # None
    /\ Cardinality(DOMAIN regStore.joinRequests) = 1

(***************************************************************************)
(* SpecSweep: cleanupLoop over a store that holds a leader record and a    *)
(* join request, each refreshed or left to age.                            *)
(***************************************************************************)
NextSweep ==
    \/ Tick
    \/ cleanupLoop
    \/ \E id \in LeaderIds, sent \in SentTimes : putLeader(id, 1, sent, TRUE)
    \/ \E id \in JoinIds : PostDue(id) /\ postJoinRequest(id, TRUE)

SpecSweep == Init /\ [][NextSweep]_vars

\* C31: a round of the sweeper removes the leader record iff it is older
\* than leaderTTL and exactly the join requests older than joinRequestTTL,
\* leaves every other item as it is, and is one step with respect to the
\* handlers
C31_SweepExact ==
    [][lastSweep' # lastSweep =>
         /\ regStore'.leader = IF regStore.leader # None /\ Since(regStore.leader.UpdatedAt) > leaderTTL
                               THEN None ELSE regStore.leader
         /\ DOMAIN regStore'.joinRequests =
               {id \in DOMAIN regStore.joinRequests :
                   Since(regStore.joinRequests[id].StartedAt) <= joinRequestTTL}
         /\ \A id \in DOMAIN regStore'.joinRequests :
               regStore'.joinRequests[id] = regStore.joinRequests[id]
         /\ regOut' = regOut /\ now' = now]_vars

\* a round has just kept a leader record that is exactly leaderTTL old and
\* found the join request gone
C31_Witness ==
    /\ lastSweep = now /\ now > joinRequestTTL
    /\ regStore.leader # None /\ Since(regStore.leader.UpdatedAt) = leaderTTL
    /\ regStore.joinRequests = <<>>

\* C32: the leader never calls add_nonvoter, promote_to_voter or
\* delete_join for its own id: its drain never works on a join request
\* carrying its own id, and such a request leaves the registry only through
\* the sweeper or another leader's drain
C32_SkipsOwnId ==
    [][\A n \in Nodes :
         /\ duty'[n] # None => duty'[n].id # n
         /\ n \in joins /\ n \notin joins' => duty'[n] = duty[n]]_vars

\* a leader's drain is working on another node's request while a request
\* with the leader's own id is in the registry
C32_Witness ==
    \E n \in Nodes : role[n] = "Leader" /\ n \in joins /\ duty[n] # None

(***************************************************************************)
(* SpecApplyAny: the FSM fed with entries of any op.  RaftStore.Set and    *)
(* Delete write only "set" and "delete"; an entry with another op comes    *)
(* from a writer of another version proposing on the same log.             *)
(***************************************************************************)
ForeignCommands == {Marshal(RaftCommand("merge", k, "x")) : k \in Keys}

\* raft.Apply(bytes, 0) on the leader n, by any writer
ProposeAny(n, bytes) ==
    /\ role[n] = "Leader"
    /\ Len(log[n]) < MaxLog
    /\ log' = [log EXCEPT ![n] = Append(@, [term |-> currentTerm[n], data |-> bytes])]
    /\ UNCHANGED <<role, currentTerm, commitIndex, lastApplied, snapIndex, data, creq, ackedMax, elections>>
    /\ UNCHANGED <<routerVars, serviceVars, clusterVars>>

NextApplyAny ==
    \/ \E n \in Nodes, bytes \in Commands \cup ForeignCommands : ProposeAny(n, bytes)
    \/ \E n, m \in Nodes : Replicate(n, m)
    \/ \E n \in Nodes, i \in 1..MaxLog : AdvanceCommit(n, i)
    \/ \E n \in Nodes : ApplyFSM(n)

SpecApplyAny == Init /\ [][NextApplyAny]_vars

\* C33: Apply of an entry whose op is neither set nor delete leaves the map
\* unchanged and the FSM moves on to the next entry; Apply is
\* deterministic: two nodes that applied the same log prefix hold equal
\* maps, the map the set and delete entries of that prefix describe
C33_UnknownOpIgnored ==
    /\ [][\A n \in Nodes :
            Applies(n) /\ Unmarshal(log[n][lastApplied'[n]].data).Op \notin {"set", "delete"}
              => data'[n] = data[n]]_vars
    /\ [](\A n, m \in Nodes :
            SubSeq(log[n], 1, lastApplied[n]) = SubSeq(log[m], 1, lastApplied[m])
              => data[n] = data[m])
    /\ [](\A n \in Nodes :
            lastApplied[n] = Len(log[n]) => data[n] = MapOf(log[n]))

\* two nodes applied an entry of unknown op and then a set
C33_Witness ==
    \E n, m \in Nodes :
      /\ n # m /\ lastApplied[n] = 2 /\ lastApplied[m] = 2
      /\ Unmarshal(log[n][1].data).Op = "merge"
      /\ Unmarshal(log[n][2].data).Op = "set"
      /\ data[n] # NewMemStore

(***************************************************************************)
(* SpecAddresses: the addresses registerLeader publishes.  An address is a *)
(* sequence of characters.  The consensus address is one the TCP transport *)
(* accepts: a host, or an IPv6 literal in brackets, and a port; a          *)
(* request-surface address is a port alone or a host and a port.           *)
(***************************************************************************)
HostNames == {<<"h">>, <<"h", "1">>, <<"[", ":", ":", "1", "]">>, <<"[", "h", ":", ":", "1", "]">>}

Ports == {<<":", "1">>, <<":", "1", "1">>}

RaftAddrs == {h \o q : h \in HostNames, q \in Ports}

SurfaceAddrs == Ports \cup {<<"h">> \o q : q \in Ports}

\* registerLeader's loop: the part of addr before its first ':', or
\* "localhost" when addr has none
Hostname(addr) ==
    IF \E i \in 1..Len(addr) : addr[i] = ":"
    THEN SubSeq(addr, 1, (CHOOSE i \in 1..Len(addr) :
                             addr[i] = ":" /\ \A j \in 1..(i - 1) : addr[j] # ":") - 1)
    ELSE <<"l", "o", "c", "a", "l", "h", "o", "s", "t">>

\* fullHTTPAddr / fullGRPCAddr
FullAddr(addr, surface) ==
    IF Len(surface) > 0 /\ surface[1] = ":" THEN Hostname(addr) \o surface ELSE surface

\* registerLeader on the leader: compose the record and PUT it
registerLeader(addr, httpAddr, grpcAddr) ==
    /\ regStore' = [regStore EXCEPT !.leader =
                      [ID |-> Bootstrap, Addr |-> addr, HTTPAddr |-> FullAddr(addr, httpAddr),
                       GRPCAddr |-> FullAddr(addr, grpcAddr), Term |-> currentTerm[Bootstrap],
                       UpdatedAt |-> now]]
    /\ UNCHANGED <<now, lastSweep, regOut, firstPosted>>
    /\ UNCHANGED <<storeVars, routerVars, clusterVars, metricsVars, monitorVars, lockVars>>

NextAddresses ==
    \E addr \in RaftAddrs, httpAddr, grpcAddr \in SurfaceAddrs : registerLeader(addr, httpAddr, grpcAddr)

SpecAddresses == Init /\ [][NextAddresses]_vars

\* the host of a host:port address: what stands before its last ':'
HostPart(addr) ==
    SubSeq(addr, 1, (CHOOSE i \in 1..Len(addr) :
                        addr[i] = ":" /\ \A j \in (i + 1)..Len(addr) : addr[j] # ":") - 1)

Resolvable(addr, surface) == IF surface[1] = ":" THEN HostPart(addr) \o surface ELSE surface

\* C34: for every consensus address and every configured surface address
\* the published http_addr and grpc_addr never begin with ':': an address
\* beginning with ':' is published as the host part of the consensus
\* address followed by it, and an address with a host is published
\* unchanged
C34_PublishedAddresses ==
    [][\A addr \in RaftAddrs, httpAddr, grpcAddr \in SurfaceAddrs :
         registerLeader(addr, httpAddr, grpcAddr) =>
           /\ regStore'.leader.HTTPAddr[1] # ":" /\ regStore'.leader.GRPCAddr[1] # ":"
           /\ regStore'.leader.HTTPAddr = Resolvable(addr, httpAddr)
           /\ regStore'.leader.GRPCAddr = Resolvable(addr, grpcAddr)]_vars

(***************************************************************************)
(* MemStore under concurrent callers.  Get takes mu.RLock and defers       *)
(* mu.RUnlock; Set and Delete take mu.Lock and defer mu.Unlock.  The       *)
(* sync.RWMutex is modelled after its implementation: a writer first takes *)
(* the inner mutex w and announces itself, which turns arriving readers    *)
(* away to readerSem; it then waits on writerSem for the readers that were *)
(* inside (readerWait).  Unlock admits every reader that was turned away   *)
(* and releases w.                                                         *)
(***************************************************************************)
MemCalls ==
    {[op |-> "get", key |-> "a", value |-> ""], [op |-> "delete", key |-> "a", value |-> ""]}
        \cup {[op |-> "set", key |-> "a", value |-> v] : v \in Values}

Others == <<storeVars, routerVars, clusterVars, registryVars, metricsVars, monitorVars>>

\* A goroutine calls Get, Set or Delete.
MemCall(g, c) ==
    /\ mem[g].pc = "idle"
    /\ mem' = [mem EXCEPT ![g] = [pc |-> IF c.op = "get" THEN "rlock" ELSE "lock",
                                  op |-> c.op, key |-> c.key, value |-> c.value]]
    /\ UNCHANGED <<mstore, Others>>

RLockBarging(g) ==
    /\ mem[g].pc = "rlock"
    /\ mstore' = [mstore EXCEPT !.mu.readers = @ \cup {g}]
    /\ mem' = [mem EXCEPT ![g].pc = "body"]
    /\ UNCHANGED Others

\* s.mu.RLock(): readerCount.Add(1); negative while a writer has announced
\* itself, and the reader then sleeps on readerSem.
RLock(g) ==
    /\ mem[g].pc = "rlock"
    /\ IF mstore.mu.w = {}
       THEN /\ mstore' = [mstore EXCEPT !.mu.readers = @ \cup {g}]
            /\ mem' = [mem EXCEPT ![g].pc = "body"]
       ELSE /\ mstore' = [mstore EXCEPT !.mu.blocked = @ \cup {g}]
            /\ mem' = [mem EXCEPT ![g].pc = "readerSem"]
    /\ UNCHANGED Others

\* A reader that slept on readerSem and was admitted by Unlock goes on.
ReaderWoken(g) ==
    /\ mem[g].pc = "readerSem"
    /\ g \in mstore.mu.readers
    /\ mem' = [mem EXCEPT ![g].pc = "body"]
    /\ UNCHANGED <<mstore, Others>>

\* s.mu.Lock(): w.Lock(), then announce to the readers and note the ones
\* that are inside.
Lock(g) ==
    /\ mem[g].pc = "lock"
    /\ mstore.mu.w = {}
    /\ mstore' = [mstore EXCEPT !.mu.w = {g}, !.mu.readerWait = mstore.mu.readers]
    /\ mem' = [mem EXCEPT ![g].pc = "writerSem"]
    /\ UNCHANGED Others

\* The announced writer goes on once the last reader it waited for left.
WriterWoken(g) ==
    /\ mem[g].pc = "writerSem"
    /\ mstore.mu.readerWait = {}
    /\ mem' = [mem EXCEPT ![g].pc = "body"]
    /\ UNCHANGED <<mstore, Others>>

\* The statements between the lock and the deferred unlock.
MemBody(g) ==
    /\ mem[g].pc = "body"
    /\ LET c == mem[g] IN
       CASE c.op = "get" ->
              /\ mem' = [mem EXCEPT ![g] = [c EXCEPT !.pc = "runlock"] @@ [ret |-> MemGet(mstore.data, c.key)]]
              /\ UNCHANGED mstore
         [] c.op = "set" ->
              /\ mstore' = [mstore EXCEPT !.data = MemSet(@, c.key, c.value)]
              /\ mem' = [mem EXCEPT ![g].pc = "unlock"]
         [] c.op = "delete" ->
              /\ mstore' = [mstore EXCEPT !.data = MemDelete(@, c.key)]
              /\ mem' = [mem EXCEPT ![g].pc = "unlock"]
    /\ UNCHANGED Others

\* defer s.mu.RUnlock(): the reader leaves; the last reader an announced
\* writer waited for wakes it.  Get returns.
RUnlock(g) ==
    /\ mem[g].pc = "runlock"
    /\ mstore' = [mstore EXCEPT !.mu.readers = @ \ {g}, !.mu.readerWait = @ \ {g}]
    /\ mem' = [mem EXCEPT ![g] = Idle]
    /\ UNCHANGED Others

\* defer s.mu.Unlock(): admit the readers that were turned away, release w.
\* Set / Delete returns nil.
Unlock(g) ==
    /\ mem[g].pc = "unlock"
    /\ mstore' = [mstore EXCEPT !.mu.w = {}, !.mu.readers = mstore.mu.blocked, !.mu.blocked = {}]
    /\ mem' = [mem EXCEPT ![g] = Idle]
    /\ UNCHANGED Others

NextLock ==
    \/ \E g \in Callers, c \in MemCalls : MemCall(g, c)
    \/ \E g \in Callers : RLock(g)
    \/ \E g \in Callers : ReaderWoken(g)
    \/ \E g \in Callers : Lock(g)
    \/ \E g \in Callers : WriterWoken(g)
    \/ \E g \in Callers : MemBody(g)
    \/ \E g \in Callers : RUnlock(g)
    \/ \E g \in Callers : Unlock(g)

\* Every goroutine that is runnable gets to run; the inner mutex w hands
\* itself to a waiter that has been starved (sync.Mutex starvation mode),
\* so a goroutine that finds w free again and again does get it.
LockFairness ==
    \A g \in Callers :
        /\ WF_vars(RLock(g))
        /\ WF_vars(ReaderWoken(g))
        /\ SF_vars(Lock(g))
        /\ WF_vars(WriterWoken(g))
        /\ WF_vars(MemBody(g))
        /\ WF_vars(RUnlock(g))
        /\ WF_vars(Unlock(g))

SpecLock == Init /\ [][NextLock]_vars /\ LockFairness

\* between acquiring the lock and releasing it
Reading(g) == mem[g].pc \in {"body", "runlock"} /\ mem[g].op = "get"

Writing(g) == mem[g].pc \in {"body", "unlock"} /\ mem[g].op # "get"

\* C35: no writer is in its critical section together with another writer
\* or with a reader, and every Get, Set and Delete that was called returns
\* (it gets its lock, runs and releases it).
C35_ReadersWriterLock ==
    /\ [](\A g, h \in Callers : g # h /\ Writing(g) => ~Writing(h) /\ ~Reading(h))
    /\ \A g \in Callers : (mem[g].pc # "idle") ~> (mem[g].pc = "idle")

\* two readers are inside together while a writer, announced, waits for them
C35_Witness ==
    \E g, h, w \in Callers :
        /\ g # h /\ Reading(g) /\ Reading(h)
        /\ mem[w].pc = "writerSem" /\ mstore.mu.readerWait = {g, h}


(***************************************************************************)
(* Forwarding chains.  A handler that is not leader asks the registry and  *)
(* sends the request on to whatever address the record holds.              *)
(***************************************************************************)
\* the handler of frame i has sent the request on
Forwards(i) == stack[i].pc \in {"await", "got"}

\* C36: a request is forwarded at most once: only the node the client
\* called forwards, a node that received a forwarded request does not
\* forward it again, and no node forwards to its own address.
C36_ForwardedAtMostOnce ==
    \A i \in 1..Len(stack) : Forwards(i) => i = 1 /\ stack[i].target # stack[i].node


\* C37: the term of the registry's leader record never decreases: a
\* put_leader carrying an older term never replaces a record that a leader
\* of a newer term published.
C37_RecordTermMonotonic ==
    [][regStore.leader # None /\ regStore'.leader # None
          => regStore'.leader.Term >= regStore.leader.Term]_vars


(***************************************************************************)
(* Writes that are answered with an error.  Two clients write through      *)
(* whatever node reports Leader while leadership moves: a call whose       *)
(* future fails has already appended its entry on the node that led.       *)
(***************************************************************************)
NextLostWrite ==
    \/ \E n \in Nodes, Q \in Quorums, t \in 2..MaxTerm : Elect(n, Q, t)
    \/ \E n, m \in Nodes : Replicate(n, m)
    \/ \E n \in Nodes : StepDown(n)
    \/ \E n \in Nodes, i \in 1..MaxLog : AdvanceCommit(n, i)
    \/ \E n \in Nodes : ApplyFSM(n)
    \/ \E c \in Clients, n \in Nodes, k \in FailoverKeys, v \in FailoverValues : WriteCheck(c, n, SetCommand(k, v))
    \/ \E c \in Clients : RaftApply(c)
    \/ \E c \in Clients : FutureOk(c)
    \/ \E c \in Clients : FutureLost(c)

SpecLostWrite == Init /\ [][NextLostWrite]_vars

\* node m has applied the entry that was appended at index i in term t
AppliedEntry(m, i, t) == lastApplied[m] >= i /\ Len(log[m]) >= i /\ log[m][i].term = t

\* C38: when a set or delete is answered with an error (the store call
\* returned one, which the handlers turn into 500 / Internal), the write
\* has not been applied to any node's map, and it is not applied later.
C38_FailedWriteNotApplied ==
    \A c \in Clients :
        creq[c].pc = "failed" /\ creq[c].err = "ErrLeadershipLost"
            => \A m \in Nodes : ~AppliedEntry(m, creq[c].idx, creq[c].term)


(***************************************************************************)
(* Promotion across a leadership change.  As SpecJoinLive, but the leader  *)
(* may lose leadership and a node may be elected again: a drain that was   *)
(* between AddNonvoter and AddVoter ends with the failed future.  Nothing  *)
(* restarts, the registry answers every call, every loop that has a step   *)
(* to take takes it.  A leader in office drains a pending request well     *)
(* within joinRequestTTL, so the sweeper gets to the request of a node     *)
(* that stopped posting only while no node leads.                          *)
(***************************************************************************)
JoinExpiresLeaderless(j) ==
    /\ \A n \in Nodes : role[n] # "Leader"
    /\ JoinExpiresUnposted(j)

NextPromote ==
    \/ \E n \in Nodes : Start(n)
    \/ \E n \in Nodes : PostJoin(n)
    \/ \E j \in Nodes : JoinExpiresLeaderless(j)
    \/ \E n, j \in Nodes : DutyAddNonvoter(n, j)
    \/ \E n \in Nodes : DutyAddVoter(n)
    \/ \E n \in Nodes : DutyDeleteJoin(n)
    \/ \E n \in Nodes : DutyAbort(n)
    \/ \E n \in Nodes, Q \in SUBSET Nodes, t \in 1..MaxTerm : Elect(n, Q, t)
    \/ \E n, m \in Nodes : Replicate(n, m)
    \/ \E n \in Nodes : StepDown(n)

PromoteFairness ==
    /\ \A n \in Nodes : WF_vars(PostJoin(n))
    /\ \A n, j \in Nodes : WF_vars(DutyAddNonvoter(n, j))
    /\ \A n \in Nodes : WF_vars(DutyAddVoter(n)) /\ WF_vars(DutyDeleteJoin(n)) /\ WF_vars(DutyAbort(n))
    /\ \A n, m \in Nodes : WF_vars(Replicate(n, m))

SpecPromote == InitJoin /\ [][NextPromote]_vars /\ PromoteFairness

\* C39: once a leader is stable, every node that is a non-voter in its
\* configuration eventually becomes a voter, also when the promotion
\* failed or leadership changed after the node was added as a non-voter.
C39_NonvoterPromoted ==
    \A n, j \in Nodes :
        <>[](role[n] = "Leader") => [](j \in conf[n].nonvoters => <>(j \in conf[n].voters))


(***************************************************************************)
(* runLeaderDuties in time.  One node stays leader and the registry        *)
(* answers every call.  leaderTicker fires every 2 s and joinTicker every  *)
(* 3 s into channels that hold one tick; the select takes a waiting tick,  *)
(* either one when both wait.  The join case works through the list it     *)
(* fetched, sleeping 2 s per entry between AddNonvoter and AddVoter; the   *)
(* membership changes themselves and the registry calls take no time, and  *)
(* time passes only while the loop is blocked.  Nodes outside the cluster  *)
(* post their join requests at any moment.                                 *)
(***************************************************************************)
leaderTickerEvery == 2
joinTickerEvery == 3
catchUpSleep == 2

Joiners == <<"n4", "n5", "n6", "n7", "n8">>

\* the loop waits: in the select with no tick in either channel, or in
\* time.Sleep
Blocked ==
    IF monitor[Bootstrap] = "select" THEN ~duties.leaderC /\ ~duties.joinC
    ELSE IF monitor[Bootstrap] = "sleep" THEN now < duties.wake
    ELSE FALSE

\* a second passes; a ticker whose period ends puts a tick into its channel
DutiesTimePasses ==
    /\ Blocked
    /\ now < MaxTime
    /\ now' = now + 1
    /\ duties' = [duties EXCEPT !.leaderC = @ \/ (now + 1) % leaderTickerEvery = 0,
                                !.joinC = @ \/ (now + 1) % joinTickerEvery = 0]
    /\ regOut' = None
    /\ UNCHANGED <<lastSweep, regStore, firstPosted, monitor>>
    /\ UNCHANGED <<storeVars, routerVars, clusterVars, metricsVars, lockVars>>

\* a node that is not in the configuration posts its join request
NodePosts(i) ==
    /\ Joiners[i] \notin Servers(conf[Bootstrap])
    /\ Joiners[i] \notin DOMAIN regStore.joinRequests
    /\ \A k \in 1..(i - 1) : Joiners[k] \in Servers(conf[Bootstrap]) \cup DOMAIN regStore.joinRequests
    /\ postJoinRequest(Joiners[i], TRUE)

\* case <-leaderTicker.C: registerLeader, and the registry's putLeader
PublishTick ==
    /\ monitor[Bootstrap] = "select"
    /\ duties.leaderC
    /\ duties' = [duties EXCEPT !.leaderC = FALSE]
    /\ regStore' = [regStore EXCEPT !.leader = LeaderInfo(Bootstrap, currentTerm[Bootstrap], now)]
    /\ monitor' = [monitor EXCEPT ![Bootstrap] = "check"]
    /\ UNCHANGED <<now, lastSweep, regOut, firstPosted>>
    /\ UNCHANGED <<storeVars, routerVars, clusterVars, metricsVars, lockVars>>

\* case <-joinTicker.C: GET /join-requests and decode the list
DrainTick ==
    /\ monitor[Bootstrap] = "select"
    /\ duties.joinC
    /\ duties' = [duties EXCEPT !.joinC = FALSE, !.list = DOMAIN regStore.joinRequests]
    /\ monitor' = [monitor EXCEPT ![Bootstrap] = "drain"]
    /\ UNCHANGED <<storeVars, routerVars, clusterVars, registryVars, metricsVars, lockVars>>

\* the head of the for loop: the next entry, AddNonvoter, time.Sleep; the
\* loop's own id is skipped; after the last entry back to the top
DrainEntry ==
    /\ monitor[Bootstrap] = "drain"
    /\ IF duties.list = {}
       THEN /\ monitor' = [monitor EXCEPT ![Bootstrap] = "check"]
            /\ UNCHANGED <<duties, conf>>
       ELSE \E j \in duties.list :
              IF j = Bootstrap
              THEN /\ duties' = [duties EXCEPT !.list = @ \ {j}]
                   /\ UNCHANGED <<monitor, conf>>
              ELSE /\ conf' = [conf EXCEPT ![Bootstrap] =
                                  IF j \in Servers(@) THEN @
                                  ELSE Configuration(@.ver + 1, @.voters, @.nonvoters \cup {j})]
                   /\ duties' = [duties EXCEPT !.cur = j, !.list = @ \ {j}, !.wake = now + catchUpSleep]
                   /\ monitor' = [monitor EXCEPT ![Bootstrap] = "sleep"]
    /\ UNCHANGED <<up, joins, duty>>
    /\ UNCHANGED <<storeVars, routerVars, registryVars, metricsVars, lockVars>>

\* the sleep is over: AddVoter, then DELETE /join-requests?id=
DrainPromote ==
    /\ monitor[Bootstrap] = "sleep"
    /\ now >= duties.wake
    /\ conf' = [conf EXCEPT ![Bootstrap] =
                  IF duties.cur \in @.voters THEN @
                  ELSE Configuration(@.ver + 1, @.voters \cup {duties.cur}, @.nonvoters \ {duties.cur})]
    /\ regStore' = [regStore EXCEPT !.joinRequests = [x \in (DOMAIN @) \ {duties.cur} |-> @[x]]]
    /\ firstPosted' = [x \in (DOMAIN firstPosted) \ {duties.cur} |-> firstPosted[x]]
    /\ duties' = [duties EXCEPT !.cur = ""]
    /\ monitor' = [monitor EXCEPT ![Bootstrap] = "drain"]
    /\ UNCHANGED <<now, lastSweep, regOut>>
    /\ UNCHANGED <<up, joins, duty>>
    /\ UNCHANGED <<storeVars, routerVars, metricsVars, lockVars>>

NextDrain ==
    \/ DutiesTimePasses
    \/ \E i \in DOMAIN Joiners : NodePosts(i)
    \/ DutiesCheck(Bootstrap)
    \/ PublishTick
    \/ DrainTick
    \/ DrainEntry
    \/ DrainPromote
    \/ getLeader

SpecDrain == Init /\ [][NextDrain]_vars

\* C40: while one node stays leader and the registry is reachable, once
\* the first leader record is stored GET /leader never answers 404: the
\* record is refreshed before leaderTTL runs out, also while the join case
\* works through several pending requests.
C40_LeaderAlwaysAvailable ==
    [][regOut' # regOut /\ regOut' # None /\ regStore.leader # None
          => (regOut'.op = "getLeader" => regOut'.status = 200)]_vars


====
